---- MODULE Spec2Model ----
(***************************************************************************)
(* Scheduling core of dbt-Workbench: Schedule -> ScheduledRun -> Attempt.  *)
(*                                                                         *)
(* Sources: backend/app/core/scheduler_manager.py (the tick loop),         *)
(* backend/app/services/scheduler_service.py (runs, attempts, retries,     *)
(* retention), backend/app/services/dbt_executor.py (the job executor),    *)
(* backend/app/api/routes/schedules.py (run-now).                          *)
(*                                                                         *)
(* Time is an integer clock.  One schedule is modelled; its environment    *)
(* row exists (schedules.environment_id is a non-null foreign key and no   *)
(* operation deletes an Environment).                                      *)
(*                                                                         *)
(* Everything below the HTTP layer runs on one asyncio event loop.  None   *)
(* of _tick, start_attempt_for_scheduled_run, start_run or the run-now     *)
(* handler suspends, so each is one step.  execute_run reads the child     *)
(* process with blocking readline()/wait() and never awaits: while a dbt   *)
(* process is alive the loop runs nothing else (variable executing).       *)
(***************************************************************************)
EXTENDS Integers, Sequences, FiniteSets, TLC

\* ------------------------------------------------------------ bounds ----
MaxTime == 3
MaxRuns == 2
MaxCatchup == 2
MaxRetries == 2
MaxConcurrent == 1
MaxN == 4
MaxRequests == 2
MaxLoops == 3
MaxStops == 2
Day == 1

None == -1

SUCCESS == "success"
FAILURE == "failure"
RUN_CANCELLED_RESULT == "cancelled"
SKIPPED == "skipped"

NOT_APPLICABLE == "not_applicable"
IN_PROGRESS == "in_progress"
EXHAUSTED == "exhausted"

QUEUED == "queued"
RUNNING == "running"
SUCCEEDED == "succeeded"
FAILED == "failed"
CANCELLED == "cancelled"

RUN_STARTED == "run_started"
RUN_SUCCEEDED == "run_succeeded"
RUN_FAILED == "run_failed"
RUN_CANCELLED == "run_cancelled"

CRON == "cron"
MANUAL == "manual"

FIXED == "fixed"
EXPONENTIAL == "exponential"

SKIP == "skip"
CATCH_UP == "catch_up"

NO_OVERLAP == "no_overlap"
ALLOW_OVERLAP == "allow_overlap"

ARCHIVE == "archive"
DELETE == "delete"

NotificationTrigger == {RUN_STARTED, RUN_SUCCEEDED, RUN_FAILED, RUN_CANCELLED}

RunFinalResult == {SUCCESS, FAILURE, RUN_CANCELLED_RESULT, SKIPPED}

VARIABLES
  now,                  \* wall clock, datetime.now(timezone.utc)
  settings,             \* get_settings(): max_concurrent_runs, scheduler_max_catchup_runs, scheduler_enabled
  schedule,             \* the Schedule row
  runs,                 \* ScheduledRun rows by id, each with its attempts
  nextRunId,            \* next primary key of scheduled_runs
  run_history,          \* DbtExecutor.run_history, indexed by job handle
  active_runs,          \* DbtExecutor.active_runs: handles with a live process
  executing,            \* handle whose execute_run occupies the loop, or None
  taskq,                \* the event loop's queue of created tasks
  tickPc,               \* phase of the tick in progress
  dispatched,           \* notification dispatches (run id, trigger) -> count
  lastOp,               \* the operation of the last step and its outcome
  calc,                 \* input and result of a compute_retry_delay call
  notification_events,  \* NotificationEvent rows, in insertion order
  requests,             \* schedule update, pause and resume requests served
  cancel_requests,      \* cancel requests received, with the answer once served
  _running,             \* scheduler_manager._running
  _scheduler_task,      \* scheduler_manager._scheduler_task: a loop task or None
  loop_tasks,           \* the _scheduler_loop tasks created so far: still alive or not
  stop_waiting          \* the stop_scheduler calls at their await, with the task awaited

vars == <<now, settings, schedule, runs, nextRunId, run_history,
          active_runs, executing, taskq, tickPc, dispatched, lastOp, calc,
          notification_events, requests, cancel_requests, _running,
          _scheduler_task, loop_tasks, stop_waiting>>

\* What start_scheduler and stop_scheduler keep besides _running.
loopctl == <<_scheduler_task, loop_tasks, stop_waiting>>

\* The state only the notification recorder, the schedule API, the cancel API
\* and the scheduler's start and stop touch.
aux == <<notification_events, requests, cancel_requests, _running, loopctl>>

RunIds == 1..MaxRuns

\* ------------------------------------------------------------ helpers ----
Min(a, b) == IF a <= b THEN a ELSE b

Max(a, b) == IF a >= b THEN a ELSE b

RECURSIVE Pow2(_)
Pow2(k) == IF k <= 0 THEN 1 ELSE 2 * Pow2(k - 1)

Last(s) == s[Len(s)]

\* sorted(run.attempts, key=lambda a: a.attempt_number): Python's sort is
\* stable, so attempts with equal numbers keep their insertion order.
RECURSIVE InsertSorted(_, _)
InsertSorted(s, a) ==
  IF s = <<>> THEN <<a>>
  ELSE IF Last(s).attempt_number <= a.attempt_number THEN Append(s, a)
  ELSE Append(InsertSorted(SubSeq(s, 1, Len(s) - 1), a), Last(s))

RECURSIVE SortedAttempts(_)
SortedAttempts(s) ==
  IF s = <<>> THEN <<>>
  ELSE InsertSorted(SortedAttempts(SubSeq(s, 1, Len(s) - 1)), Last(s))

\* ------------------------------------------------- retry policy engine ----
\* compute_retry_delay with the cap left out (a plausible slip).
compute_retry_delay_nocap(retry_policy, attempt_number) ==
  IF retry_policy.backoff_strategy = FIXED
  THEN retry_policy.delay_seconds
  ELSE retry_policy.delay_seconds * Pow2(Max(attempt_number - 1, 0))

compute_retry_delay(retry_policy, attempt_number) ==
  IF retry_policy.backoff_strategy = FIXED
  THEN retry_policy.delay_seconds
  ELSE LET base_delay == retry_policy.delay_seconds
           delay == base_delay * Pow2(Max(attempt_number - 1, 0))
       IN IF retry_policy.max_delay_seconds # None
          THEN Min(delay, retry_policy.max_delay_seconds)
          ELSE delay

\* --------------------------------------------------------- cron evaluator ----
\* A cron expression is modelled by its period p >= 1 (a slot at every local
\* time that is a multiple of p); 0 stands for an expression croniter rejects.
\* A timezone is modelled by its offset from UTC; None for an unknown zone.
\* croniter.get_next returns the first slot strictly after the base; the
\* first definition is the variant that also accepts the base itself.
_compute_next_run_time_inclusive(cron_expression, timezone_name, from_time) ==
  IF cron_expression < 1 \/ timezone_name = None
  THEN None
  ELSE LET base_local == from_time + timezone_name
           next_local == IF base_local % cron_expression = 0 THEN base_local
                         ELSE ((base_local \div cron_expression) + 1) * cron_expression
       IN next_local - timezone_name

_compute_next_run_time(cron_expression, timezone_name, from_time) ==
  IF cron_expression < 1 \/ timezone_name = None
  THEN None
  ELSE LET base_local == from_time + timezone_name
           next_local == ((base_local \div cron_expression) + 1) * cron_expression
       IN next_local - timezone_name

\* ------------------------------------------------------- lifecycle store ----
\* find_due_schedules without the test that next_run_time is set.
find_due_schedules_nullable(sched, t) ==
  sched.enabled /\ sched.next_run_time <= t

\* find_due_schedules for the one schedule: it is due at t.
find_due_schedules(sched, t) ==
  sched.enabled /\ sched.next_run_time # None /\ sched.next_run_time <= t

\* The overlap query of create_scheduled_run: a run of the schedule whose
\* status is none of the four RunFinalResult values.
ActiveQuery(rs) ==
  {id \in DOMAIN rs : rs[id].status \notin {SUCCESS, FAILURE, RUN_CANCELLED_RESULT, SKIPPED}}

\* create_scheduled_run: the empty sequence when it returns None, else the
\* one new ScheduledRun row.
create_scheduled_run(sched, rs, scheduled_time, triggering_event) ==
  IF sched.overlap_policy = NO_OVERLAP /\ ActiveQuery(rs) # {}
  THEN <<>>
  ELSE IF ~sched.environment_exists
  THEN <<>>
  ELSE <<[triggering_event |-> triggering_event,
        status |-> SKIPPED,
        retry_status |-> NOT_APPLICABLE,
        attempts_total |-> 0,
        scheduled_at |-> scheduled_time,
        queued_at |-> None,
        started_at |-> None,
        finished_at |-> None,
        has_links |-> FALSE,
        attempts |-> <<>>]>>

\* ---------------------------------------------------------- job executor ----
\* start_run: the concurrency check counts the tracked processes that are
\* still alive; a tracked process is removed when execute_run returns.
active_count(act) == Cardinality(act)

start_run_refused(act, limit) == active_count(act) >= limit

\* The run_history entry start_run creates.
NewJob(t) == [status |-> QUEUED, start_time |-> t, end_time |-> None]

\* ------------------------------------------------------ attempt launcher ----
\* start_attempt_for_scheduled_run that stores attempts_total only for the
\* first attempt: a later attempt takes a number that is in use.
start_attempt_uncounted(run, retry_policy, run_id, t) ==
  LET attempt_number == run.attempts_total + 1
      db_attempt == [attempt_number |-> attempt_number,
                     run_id |-> run_id,
                     status |-> QUEUED,
                     queued_at |-> t,
                     started_at |-> None,
                     finished_at |-> None]
  IN [run EXCEPT !.attempts = Append(@, db_attempt),
                 !.attempts_total = Max(1, @),
                 !.status = SKIPPED,
                 !.retry_status = IF retry_policy.max_retries = 0
                                  THEN NOT_APPLICABLE ELSE IN_PROGRESS,
                 !.queued_at = t,
                 !.started_at = None,
                 !.finished_at = None]

\* The ScheduledRun after start_attempt_for_scheduled_run created an attempt
\* with job handle run_id at time t.
start_attempt(run, retry_policy, run_id, t) ==
  LET attempt_number == run.attempts_total + 1
      db_attempt == [attempt_number |-> attempt_number,
                     run_id |-> run_id,
                     status |-> QUEUED,
                     queued_at |-> t,
                     started_at |-> None,
                     finished_at |-> None]
  IN [run EXCEPT !.attempts = Append(@, db_attempt),
                 !.attempts_total = attempt_number,
                 !.status = SKIPPED,
                 !.retry_status = IF retry_policy.max_retries = 0
                                  THEN NOT_APPLICABLE ELSE IN_PROGRESS,
                 !.queued_at = t,
                 !.started_at = None,
                 !.finished_at = None]

\* ------------------------------------------------------------ status sync ----
TerminalAttempt(st) == st \in {SUCCEEDED, FAILED, CANCELLED}

NoTrigger == "none"

\* _update_scheduled_run_aggregate with the exhaustion test of the design
\* text, attempts_total > max_retries + 1 (off by one against the code).
ExhaustedOnFailure_plus1(attempts_total, retry_policy) ==
  attempts_total > retry_policy.max_retries + 1

\* The test of the FAILED branch of _update_scheduled_run_aggregate.
ExhaustedOnFailure(attempts_total, retry_policy) ==
  attempts_total > retry_policy.max_retries

\* The trigger chosen by _update_scheduled_run_aggregate, level-triggered:
\* the comparison with the previous status is left out.
AggregateTrigger_level(prev_status, prev_retry, status, retry_status) ==
  IF status = SUCCESS THEN RUN_SUCCEEDED
  ELSE IF status = RUN_CANCELLED_RESULT THEN RUN_CANCELLED
  ELSE IF status = FAILURE THEN RUN_FAILED
  ELSE NoTrigger

\* The trigger chosen by _update_scheduled_run_aggregate.
AggregateTrigger(prev_status, prev_retry, status, retry_status) ==
  IF status # prev_status \/ retry_status # prev_retry
  THEN IF status = SUCCESS THEN RUN_SUCCEEDED
       ELSE IF status = RUN_CANCELLED_RESULT THEN RUN_CANCELLED
       ELSE IF status = FAILURE /\ retry_status = EXHAUSTED THEN RUN_FAILED
       ELSE NoTrigger
  ELSE NoTrigger

\* _update_scheduled_run_aggregate: the run afterwards and the notification
\* trigger it dispatches (NoTrigger for none).
_update_scheduled_run_aggregate(run, retry_policy) ==
  LET attempts == SortedAttempts(run.attempts) IN
  IF attempts = <<>> THEN [run |-> run, trigger |-> NoTrigger]
  ELSE
    LET last_attempt == Last(attempts)
        r1 == [run EXCEPT !.queued_at = attempts[1].queued_at,
                          !.started_at = attempts[1].started_at,
                          !.finished_at = last_attempt.finished_at,
                          !.has_links = TRUE]
        r2 == IF last_attempt.status = SUCCEEDED
              THEN [r1 EXCEPT !.status = SUCCESS,
                              !.retry_status = IF r1.attempts_total <= 1
                                               THEN NOT_APPLICABLE
                                               ELSE IN_PROGRESS]
              ELSE IF last_attempt.status = CANCELLED
              THEN [r1 EXCEPT !.status = RUN_CANCELLED_RESULT,
                              !.retry_status = EXHAUSTED]
              ELSE IF last_attempt.status = FAILED
              THEN [r1 EXCEPT !.status = FAILURE,
                              !.retry_status =
                                 IF ExhaustedOnFailure(r1.attempts_total, retry_policy)
                                 THEN EXHAUSTED ELSE IN_PROGRESS]
              ELSE r1
    IN [run |-> r2,
        trigger |-> AggregateTrigger(run.status, run.retry_status,
                                     r2.status, r2.retry_status)]

\* update_attempt_status_from_executor for the i-th attempt row of the run.
update_attempt_status_from_executor(run, i, hist, retry_policy, t) ==
  LET db_attempt == run.attempts[i]
      summary == hist[db_attempt.run_id]
      a1 == [db_attempt EXCEPT !.status = summary.status]
      a2 == IF summary.status = RUNNING /\ db_attempt.started_at = None
            THEN [a1 EXCEPT !.started_at = summary.start_time] ELSE a1
      a3 == IF TerminalAttempt(summary.status)
            THEN [a2 EXCEPT !.finished_at = IF summary.end_time # None
                                            THEN summary.end_time ELSE t]
            ELSE a2
      r1 == [run EXCEPT !.attempts[i] = a3]
  IN IF TerminalAttempt(summary.status)
     THEN _update_scheduled_run_aggregate(r1, retry_policy)
     ELSE [run |-> r1, trigger |-> NoTrigger]

\* _update_attempt_statuses without the skip of terminal attempts: every
\* attempt row is polled on every tick.
RECURSIVE SyncAttemptsFrom_repoll(_, _, _, _, _)
SyncAttemptsFrom_repoll(run, i, hist, retry_policy, t) ==
  IF i > Len(run.attempts) THEN [run |-> run, triggers |-> <<>>]
  ELSE LET u == update_attempt_status_from_executor(run, i, hist, retry_policy, t)
           rest == SyncAttemptsFrom_repoll(u.run, i + 1, hist, retry_policy, t)
       IN [run |-> rest.run,
           triggers |-> IF u.trigger = NoTrigger THEN rest.triggers
                        ELSE <<u.trigger>> \o rest.triggers]

\* _update_attempt_statuses restricted to the attempts i.. of one run: the
\* run afterwards and the triggers dispatched, in order.
RECURSIVE SyncAttemptsFrom(_, _, _, _, _)
SyncAttemptsFrom(run, i, hist, retry_policy, t) ==
  IF i > Len(run.attempts) THEN [run |-> run, triggers |-> <<>>]
  ELSE IF TerminalAttempt(run.attempts[i].status)
  THEN SyncAttemptsFrom(run, i + 1, hist, retry_policy, t)
  ELSE LET u == update_attempt_status_from_executor(run, i, hist, retry_policy, t)
           rest == SyncAttemptsFrom(u.run, i + 1, hist, retry_policy, t)
       IN [run |-> rest.run,
           triggers |-> IF u.trigger = NoTrigger THEN rest.triggers
                        ELSE <<u.trigger>> \o rest.triggers]

\* ------------------------------------------------- notification dispatcher ----
SLACK == "slack"
EMAIL == "email"
WEBHOOK == "webhook"

NotificationChannelType == {SLACK, EMAIL, WEBHOOK}

\* A channel of a NotificationConfig is the empty sequence when it is not
\* configured (None), else one record: enabled, triggers (the subscription
\* list) and, for email, whether recipients is non-empty.
ChannelConfig(enabled, triggers, has_recipients) ==
  [enabled |-> enabled, triggers |-> triggers, has_recipients |-> has_recipients]

\* NotificationConfig(): no channel configured.
NotificationConfig(slack, email, webhook) ==
  [slack |-> slack, email |-> email, webhook |-> webhook]

\* The result dictionary of _send_slack and _send_webhook: delivered tells
\* whether the transport accepted the message; an exception of the transport
\* is caught and becomes the error_message.
SendResult(channel, trigger, delivered) ==
  [channel |-> channel, trigger |-> trigger, success |-> delivered,
   has_error_message |-> ~delivered]

_send_slack(trigger, delivered) == SendResult(SLACK, trigger, delivered)

_send_webhook(trigger, delivered) == SendResult(WEBHOOK, trigger, delivered)

\* _send_email: without recipients it fails before any SMTP traffic.
_send_email(has_recipients, trigger, delivered) ==
  IF ~has_recipients THEN SendResult(EMAIL, trigger, FALSE)
  ELSE SendResult(EMAIL, trigger, delivered)

\* send_notifications that gives up at the first channel whose send failed
\* (the failure propagates instead of being recorded and passed over).
send_notifications_failfast(notification_config, trigger, delivered) ==
  LET slack == IF notification_config.slack # <<>> /\ notification_config.slack[1].enabled
               THEN <<_send_slack(trigger, delivered[SLACK])>> ELSE <<>>
      email == IF notification_config.email # <<>> /\ notification_config.email[1].enabled
               THEN <<_send_email(notification_config.email[1].has_recipients,
                                  trigger, delivered[EMAIL])>>
               ELSE <<>>
      webhook == IF notification_config.webhook # <<>> /\ notification_config.webhook[1].enabled
                 THEN <<_send_webhook(trigger, delivered[WEBHOOK])>> ELSE <<>>
  IN IF slack # <<>> /\ ~slack[1].success THEN slack
     ELSE IF email # <<>> /\ ~email[1].success THEN slack \o email
     ELSE slack \o email \o webhook

\* send_notifications: the results, one per channel that is configured and
\* enabled, in the order slack, email, webhook.
send_notifications(notification_config, trigger, delivered) ==
  LET slack == IF notification_config.slack # <<>> /\ notification_config.slack[1].enabled
               THEN <<_send_slack(trigger, delivered[SLACK])>> ELSE <<>>
      email == IF notification_config.email # <<>> /\ notification_config.email[1].enabled
               THEN <<_send_email(notification_config.email[1].has_recipients,
                                  trigger, delivered[EMAIL])>>
               ELSE <<>>
      webhook == IF notification_config.webhook # <<>> /\ notification_config.webhook[1].enabled
                 THEN <<_send_webhook(trigger, delivered[WEBHOOK])>> ELSE <<>>
  IN slack \o email \o webhook

\* The NotificationEvent row _send_and_record_notifications adds for a result.
NotificationEvent(scheduled_run_id, trigger, result) ==
  [scheduled_run_id |-> scheduled_run_id,
   channel |-> result.channel,
   trigger |-> trigger,
   status |-> IF result.success THEN "success" ELSE "failure",
   has_error_message |-> result.has_error_message]

\* The channels of a configuration that a dispatch sends on.
EnabledChannels(notification_config) ==
  {c \in NotificationChannelType :
     LET ch == IF c = SLACK THEN notification_config.slack
               ELSE IF c = EMAIL THEN notification_config.email
               ELSE notification_config.webhook
     IN ch # <<>> /\ ch[1].enabled}

\* What the transports can answer to one dispatch: each channel that is sent
\* on accepts or rejects the message.
Deliveries(notification_config) ==
  {d \in [NotificationChannelType -> BOOLEAN] :
     \A c \in NotificationChannelType \ EnabledChannels(notification_config) : d[c]}

\* ---------------------------------------------------------- event loop ----
Task(type, run, job, trigger) ==
  [type |-> type, run |-> run, job |-> job, trigger |-> trigger]

StartTask(id) == Task("start_attempt", id, 0, NoTrigger)

ExecuteTask(job) == Task("execute_run", 0, job, NoTrigger)

NotifyTask(id, trigger) == Task("notify", id, 0, trigger)

\* The loop can run a task or a handler: no execute_run is blocking it and
\* no tick is under way.
LoopFree == executing = None /\ tickPc = "idle"

\* A _scheduler_loop task exists that has not returned.
LoopAlive == \E t \in DOMAIN loop_tasks : loop_tasks[t]

NoOp == [op |-> "none", run |-> 0, result |-> "none", created |-> 0]

Op(op, run, result) == [op |-> op, run |-> run, result |-> result, created |-> 0]

Dispatch(d, id, trigger) == [d EXCEPT ![<<id, trigger>>] = @ + 1]

\* The store and executor state threaded through a handler.
State(rs, hist, q, d) == [runs |-> rs, run_history |-> hist, taskq |-> q, dispatched |-> d]

\* LaunchAttempt with the run row touched before executor.start_run is
\* called: a refusal leaves attempts_total and queued_at changed and the
\* RUN_STARTED notification dispatched.
LaunchAttempt_eager(st, id, retry_policy, t) ==
  IF start_run_refused(active_runs, settings.max_concurrent_runs)
  THEN [st EXCEPT !.runs[id].attempts_total = @ + 1,
                  !.runs[id].queued_at = t,
                  !.dispatched = Dispatch(@, id, RUN_STARTED)]
  ELSE LET run_id == Len(st.run_history) + 1
       IN State([st.runs EXCEPT ![id] = start_attempt(@, retry_policy, run_id, t)],
                Append(st.run_history, NewJob(t)),
                st.taskq \o <<NotifyTask(id, RUN_STARTED), ExecuteTask(run_id)>>,
                Dispatch(st.dispatched, id, RUN_STARTED))

\* start_attempt_for_scheduled_run on run id, followed by the caller's
\* create_task(executor.execute_run(...)) when an attempt came back.
\* A refused start_run leaves the state as it is.
LaunchAttempt(st, id, retry_policy, t) ==
  IF start_run_refused(active_runs, settings.max_concurrent_runs) THEN st
  ELSE LET run_id == Len(st.run_history) + 1
       IN State([st.runs EXCEPT ![id] = start_attempt(@, retry_policy, run_id, t)],
                Append(st.run_history, NewJob(t)),
                st.taskq \o <<NotifyTask(id, RUN_STARTED), ExecuteTask(run_id)>>,
                Dispatch(st.dispatched, id, RUN_STARTED))

Here == State(runs, run_history, taskq, dispatched)

Commit(st) ==
  /\ runs' = st.runs
  /\ run_history' = st.run_history
  /\ taskq' = st.taskq
  /\ dispatched' = st.dispatched

\* Time passes (also while a dbt process keeps the loop busy).
Advance ==
  /\ tickPc = "idle"
  /\ now < MaxTime
  /\ now' = now + 1
  /\ lastOp' = NoOp
  /\ UNCHANGED <<settings, schedule, runs, nextRunId, run_history,
                 active_runs, executing, taskq, tickPc, dispatched, calc, aux>>

\* POST /schedules/{id}/run (run_schedule_now).
RunScheduleNow ==
  /\ LoopFree
  /\ nextRunId <= MaxRuns
  /\ LET created == create_scheduled_run(schedule, runs, now, MANUAL) IN
     IF created = <<>>
     THEN /\ lastOp' = Op("run_now", 0, "conflict")
          /\ UNCHANGED <<runs, nextRunId, run_history, taskq, dispatched>>
     ELSE LET id == nextRunId
              st0 == State(runs @@ (id :> created[1]), run_history, taskq, dispatched)
              st1 == LaunchAttempt(st0, id, schedule.retry_policy, now)
          IN /\ Commit(st1)
             /\ nextRunId' = nextRunId + 1
             /\ lastOp' = Op("run_now", id,
                             IF start_run_refused(active_runs, settings.max_concurrent_runs)
                             THEN "refused" ELSE "started")
  /\ UNCHANGED <<now, settings, schedule, active_runs, executing,
                 tickPc, calc, aux>>

\* _start_attempt_async(scheduled_run_id), the task created for each cron run.
StartAttemptAsync ==
  /\ LoopFree
  /\ taskq # <<>>
  /\ Head(taskq).type = "start_attempt"
  /\ LET id == Head(taskq).run
         st0 == State(runs, run_history, Tail(taskq), dispatched)
     IN IF id \notin DOMAIN runs
        THEN /\ Commit(st0)
             /\ lastOp' = Op("start_attempt", id, "gone")
        ELSE LET st1 == LaunchAttempt(st0, id, schedule.retry_policy, now)
             IN /\ Commit(st1)
                /\ lastOp' = Op("start_attempt", id,
                                IF start_run_refused(active_runs, settings.max_concurrent_runs)
                             THEN "refused" ELSE "started")
  /\ UNCHANGED <<now, settings, schedule, nextRunId, active_runs,
                 executing, tickPc, calc, aux>>

\* execute_run up to the blocking read loop: the job is RUNNING and its
\* process is tracked in active_runs.
ExecuteRunBegin ==
  /\ LoopFree
  /\ taskq # <<>>
  /\ Head(taskq).type = "execute_run"
  /\ LET run_id == Head(taskq).job IN
       /\ run_history' = [run_history EXCEPT ![run_id].status = RUNNING]
       /\ active_runs' = active_runs \cup {run_id}
       /\ executing' = run_id
  /\ taskq' = Tail(taskq)
  /\ lastOp' = NoOp
  /\ UNCHANGED <<now, settings, schedule, runs, nextRunId, tickPc,
                 dispatched, calc, aux>>

\* execute_run when subprocess.Popen raises: the job is FAILED at once.
ExecuteRunSpawnFails ==
  /\ LoopFree
  /\ taskq # <<>>
  /\ Head(taskq).type = "execute_run"
  /\ LET run_id == Head(taskq).job IN
       run_history' = [run_history EXCEPT ![run_id].status = FAILED,
                                          ![run_id].end_time = now]
  /\ taskq' = Tail(taskq)
  /\ lastOp' = NoOp
  /\ UNCHANGED <<now, settings, schedule, runs, nextRunId,
                 active_runs, executing, tickPc, dispatched, calc, aux>>

\* The process exits with return_code; execute_run records the result and
\* stops tracking the process.
ExecuteRunEnd(return_code) ==
  /\ executing # None
  /\ run_history' = [run_history EXCEPT
                       ![executing].status = IF return_code = 0 THEN SUCCEEDED ELSE FAILED,
                       ![executing].end_time = now]
  /\ active_runs' = active_runs \ {executing}
  /\ executing' = None
  /\ lastOp' = NoOp
  /\ UNCHANGED <<now, settings, schedule, runs, nextRunId, taskq,
                 tickPc, dispatched, calc, aux>>

\* _send_and_record_notifications(scheduled_run_id, trigger), a created task:
\* nothing when the run is gone, else one send per enabled channel and one
\* NotificationEvent per result.
SendAndRecordNotifications ==
  /\ LoopFree
  /\ taskq # <<>>
  /\ Head(taskq).type = "notify"
  /\ taskq' = Tail(taskq)
  /\ lastOp' = NoOp
  /\ LET scheduled_run_id == Head(taskq).run
         trigger == Head(taskq).trigger
     IN IF scheduled_run_id \notin DOMAIN runs
        THEN UNCHANGED notification_events
        ELSE \E delivered \in Deliveries(schedule.notification_config) :
               LET raw_results == send_notifications(schedule.notification_config,
                                                     trigger, delivered)
               IN notification_events' = notification_events \o
                    [k \in 1..Len(raw_results) |->
                       NotificationEvent(scheduled_run_id, trigger, raw_results[k])]
  /\ UNCHANGED <<now, settings, schedule, runs, nextRunId,
                 run_history, active_runs, executing, tickPc, dispatched, calc,
                 requests, cancel_requests, _running, loopctl>>

\* ------------------------------------------------------------- the tick ----
\* The while loop of _process_due_schedule, from the iteration that has
\* next_run_time = nrt and created runs so far: the store, the next run id,
\* next_run_time and created when the loop is left.
RECURSIVE DueLoop(_, _, _, _, _, _)
DueLoop(sched, st, nid, nrt, created, t) ==
  IF nrt # None /\ nrt <= t /\ created < settings.scheduler_max_catchup_runs
  THEN LET scheduled_run == create_scheduled_run(sched, st.runs, nrt, CRON)
           st1 == IF scheduled_run = <<>> THEN st
                  ELSE [st EXCEPT !.runs = @ @@ (nid :> scheduled_run[1]),
                                  !.taskq = Append(@, StartTask(nid))]
           nid1 == IF scheduled_run = <<>> THEN nid ELSE nid + 1
           next_run_time == _compute_next_run_time(sched.cron_expression,
                                                   sched.timezone, nrt)
       IN IF sched.catch_up_policy = SKIP
          THEN [st |-> st1, nid |-> nid1, next_run_time |-> next_run_time,
                created |-> created + 1]
          ELSE DueLoop(sched, st1, nid1, next_run_time, created + 1, t)
  ELSE [st |-> st, nid |-> nid, next_run_time |-> nrt, created |-> created]

\* _process_due_schedule: the loop, then the advance when nothing was created.
_process_due_schedule(sched, st, nid, t) ==
  LET start == IF sched.next_run_time # None THEN sched.next_run_time ELSE t
      loop == DueLoop(sched, st, nid, start, 0, t)
      s1 == IF loop.created > 0
            THEN [sched EXCEPT !.next_run_time = loop.next_run_time,
                               !.last_run_time = t]
            ELSE sched
      s2 == IF loop.created = 0 /\ loop.next_run_time # None /\ loop.next_run_time <= t
            THEN [s1 EXCEPT !.next_run_time =
                    _compute_next_run_time(sched.cron_expression, sched.timezone, t)]
            ELSE s1
  IN [schedule |-> s2, st |-> loop.st, nid |-> loop.nid, created |-> loop.created]

\* _tick, first phase: find_due_schedules and _process_due_schedule.
TickDue ==
  /\ _running
  /\ LoopAlive
  /\ LoopFree
  /\ LET res == IF find_due_schedules(schedule, now)
                THEN _process_due_schedule(schedule, Here, nextRunId, now)
                ELSE [schedule |-> schedule, st |-> Here, nid |-> nextRunId,
                      created |-> 0]
     IN /\ res.nid <= MaxRuns + 1
        /\ schedule' = res.schedule
        /\ Commit(res.st)
        /\ nextRunId' = res.nid
        /\ lastOp' = [op |-> "tick_due", run |-> 0,
                      result |-> IF find_due_schedules(schedule, now)
                                 THEN "due" ELSE "none",
                      created |-> res.created]
  /\ tickPc' = "sync"
  /\ UNCHANGED <<now, settings, active_runs, executing, calc, aux>>

\* _update_attempt_statuses over the runs id.. in key order.
RECURSIVE SyncRunsFrom(_, _, _)
SyncRunsFrom(st, id, retry_policy) ==
  IF id > MaxRuns THEN st
  ELSE IF id \notin DOMAIN st.runs THEN SyncRunsFrom(st, id + 1, retry_policy)
  ELSE LET u == SyncAttemptsFrom(st.runs[id], 1, st.run_history, retry_policy, now)
           n == Len(u.triggers)
           st1 == [st EXCEPT
                     !.runs[id] = u.run,
                     !.taskq = @ \o [k \in 1..n |-> NotifyTask(id, u.triggers[k])],
                     !.dispatched = [p \in DOMAIN @ |->
                        @[p] + Cardinality({k \in 1..n : p = <<id, u.triggers[k]>>})]]
       IN SyncRunsFrom(st1, id + 1, retry_policy)

\* _tick, second phase: _update_attempt_statuses.
TickSync ==
  /\ tickPc = "sync"
  /\ Commit(SyncRunsFrom(Here, 1, schedule.retry_policy))
  /\ tickPc' = "retries"
  /\ lastOp' = Op("tick_sync", 0, "none")
  /\ UNCHANGED <<now, settings, schedule, nextRunId, active_runs,
                 executing, calc, aux>>

\* The body of the for loop of _schedule_retries without the test of the last
\* attempt's status: a run is retried whatever its last attempt came to.
RetryRun_anystatus(st, id, retry_policy, t) ==
  LET run == st.runs[id]
      attempts == SortedAttempts(run.attempts)
      exhausted == [st EXCEPT !.runs[id].retry_status = EXHAUSTED]
  IN IF retry_policy.max_retries <= 0 THEN exhausted
     ELSE IF attempts = <<>> THEN st
     ELSE LET last_attempt == Last(attempts)
              next_attempt_number == last_attempt.attempt_number + 1
          IN IF last_attempt.finished_at = None THEN st
             ELSE IF next_attempt_number > retry_policy.max_retries + 1 THEN exhausted
             ELSE IF last_attempt.finished_at
                       + compute_retry_delay(retry_policy, next_attempt_number) > t
             THEN st
             ELSE LaunchAttempt(st, id, retry_policy, t)

\* The body of the for loop of _schedule_retries without the wait for the
\* retry delay: the next attempt is launched as soon as the last one failed.
RetryRun_nodelay(st, id, retry_policy, t) ==
  LET run == st.runs[id]
      attempts == SortedAttempts(run.attempts)
      exhausted == [st EXCEPT !.runs[id].retry_status = EXHAUSTED]
  IN IF retry_policy.max_retries <= 0 THEN exhausted
     ELSE IF attempts = <<>> THEN st
     ELSE LET last_attempt == Last(attempts)
              next_attempt_number == last_attempt.attempt_number + 1
          IN IF last_attempt.status \notin {FAILED, CANCELLED} THEN st
             ELSE IF last_attempt.finished_at = None THEN st
             ELSE IF next_attempt_number > retry_policy.max_retries + 1 THEN exhausted
             ELSE LaunchAttempt(st, id, retry_policy, t)

\* The body of the for loop of _schedule_retries for run id.
RetryRun(st, id, retry_policy, t) ==
  LET run == st.runs[id]
      attempts == SortedAttempts(run.attempts)
      exhausted == [st EXCEPT !.runs[id].retry_status = EXHAUSTED]
  IN IF retry_policy.max_retries <= 0 THEN exhausted
     ELSE IF attempts = <<>> THEN st
     ELSE LET last_attempt == Last(attempts)
              next_attempt_number == last_attempt.attempt_number + 1
          IN IF last_attempt.status \notin {FAILED, CANCELLED} THEN st
             ELSE IF last_attempt.finished_at = None THEN st
             ELSE IF next_attempt_number > retry_policy.max_retries + 1 THEN exhausted
             ELSE IF last_attempt.finished_at
                       + compute_retry_delay(retry_policy, next_attempt_number) > t
             THEN st
             ELSE LaunchAttempt(st, id, retry_policy, t)

\* _schedule_retries over the runs id.. that the query returned.
RECURSIVE RetryRunsFrom(_, _, _, _, _)
RetryRunsFrom(st, id, selected, retry_policy, t) ==
  IF id > MaxRuns THEN st
  ELSE IF id \notin selected THEN RetryRunsFrom(st, id + 1, selected, retry_policy, t)
  ELSE RetryRunsFrom(RetryRun(st, id, retry_policy, t), id + 1, selected, retry_policy, t)

\* The query of _schedule_retries without its filter: every ScheduledRun.
RetrySelected_all(rs) == DOMAIN rs

\* The query of _schedule_retries: the runs with retry_status IN_PROGRESS.
RetrySelected(rs) == {id \in DOMAIN rs : rs[id].retry_status = IN_PROGRESS}

\* _tick, third phase: _schedule_retries.
TickRetries ==
  /\ tickPc = "retries"
  /\ Commit(RetryRunsFrom(Here, 1, RetrySelected(runs), schedule.retry_policy, now))
  /\ tickPc' = "retention"
  /\ lastOp' = Op("tick_retries", 0, "none")
  /\ UNCHANGED <<now, settings, schedule, nextRunId, active_runs,
                 executing, calc, aux>>

\* ------------------------------------------------------- retention enforcer ----
\* runs[: keep_last_n_runs] of the query ordered by scheduled_at descending:
\* every set the database's order among equal scheduled_at values can give.
NewestRuns(rs, n) ==
  {K \in SUBSET DOMAIN rs :
     /\ Cardinality(K) = Min(n, Cardinality(DOMAIN rs))
     /\ \A a \in K, b \in DOMAIN rs \ K : rs[a].scheduled_at >= rs[b].scheduled_at}

\* final_statuses of _apply_retention_for_schedule.
RetentionFinal(run) == run.status \in {SUCCESS, FAILURE, RUN_CANCELLED_RESULT}

\* The age filter of _apply_retention_for_schedule.
OlderThanCutoff(run, policy, t) ==
  IF policy.keep_for_n_days # None /\ policy.keep_for_n_days > 0
  THEN run.scheduled_at < t - policy.keep_for_n_days * Day
  ELSE TRUE

\* The keep-last-N filter with N - 1 runs kept instead of N.
KeepIds_short(rs, policy) ==
  IF policy.keep_last_n_runs # None /\ policy.keep_last_n_runs > 0
  THEN NewestRuns(rs, policy.keep_last_n_runs - 1)
  ELSE {{}}

\* The sets keep_ids can be.
KeepIds(rs, policy) ==
  IF policy.keep_last_n_runs # None /\ policy.keep_last_n_runs > 0
  THEN NewestRuns(rs, policy.keep_last_n_runs)
  ELSE {{}}

\* candidates of _apply_retention_for_schedule, given keep_ids.
RetentionCandidates(rs, policy, t, keep_ids) ==
  {id \in DOMAIN rs :
     /\ id \notin keep_ids
     /\ OlderThanCutoff(rs[id], policy, t)
     /\ RetentionFinal(rs[id])}

\* _apply_retention_for_schedule: the runs afterwards.
_apply_retention_for_schedule(rs, policy, t, keep_ids) ==
  LET candidates == RetentionCandidates(rs, policy, t, keep_ids) IN
  IF policy.action = DELETE
  THEN [id \in DOMAIN rs \ candidates |-> rs[id]]
  ELSE [id \in DOMAIN rs |->
          IF id \in candidates THEN [rs[id] EXCEPT !.has_links = FALSE] ELSE rs[id]]

\* The policy apply_retention_policies uses for the schedule: its own, else
\* its environment's default, else none (the empty sequence).
EffectiveRetention(sched) ==
  IF sched.retention_policy # <<>> THEN sched.retention_policy
  ELSE sched.default_retention_policy

\* The delete cascade of ScheduledRun.notification_events: the
\* NotificationEvent rows left when the runs outside rs are deleted.
CascadeNotificationEvents(events, rs) ==
  SelectSeq(events, LAMBDA e : e.scheduled_run_id \in DOMAIN rs)

\* What the commit of _log_scheduler_event can do after db.delete(r): the new
\* SchedulerEvent row names the deleted run in its foreign key
\* scheduled_run_id, so a database that enforces the key rejects the commit
\* (TRUE) and one that does not accepts it (FALSE).
CommitRejected(policy, candidates) ==
  IF policy.action = DELETE /\ candidates # {} THEN BOOLEAN ELSE {FALSE}

\* _tick, fourth phase: apply_retention_policies.
TickRetention ==
  /\ tickPc = "retention"
  /\ LET policy == EffectiveRetention(schedule) IN
     IF policy = <<>>
     THEN /\ UNCHANGED <<runs, notification_events>>
          /\ lastOp' = Op("tick_retention", 0, "none")
     ELSE \E keep_ids \in KeepIds(runs, policy[1]) :
          \E rejected \in CommitRejected(policy[1],
                            RetentionCandidates(runs, policy[1], now, keep_ids)) :
            IF rejected
            THEN /\ UNCHANGED <<runs, notification_events>>
                 /\ lastOp' = Op("tick_retention", 0, "raised")
            ELSE /\ runs' = _apply_retention_for_schedule(runs, policy[1], now, keep_ids)
                 /\ notification_events' =
                      CascadeNotificationEvents(notification_events, runs')
                 /\ lastOp' = Op("tick_retention", 0,
                      IF RetentionCandidates(runs, policy[1], now, keep_ids) = {}
                      THEN "none" ELSE policy[1].action)
  /\ tickPc' = "idle"
  /\ UNCHANGED <<now, settings, schedule, nextRunId, run_history,
                 active_runs, executing, taskq, dispatched, calc,
                 requests, cancel_requests, _running, loopctl>>

\* -------------------------------------------------------- cancel requests ----
\* DbtExecutor.cancel_run at time t: only a tracked process that is alive is
\* terminated (it then exits with a code of its own), and only then is the
\* job marked CANCELLED.
cancel_run(act, hist, run_id, t) ==
  IF run_id \in act
  THEN [success |-> TRUE,
        run_history |-> [hist EXCEPT ![run_id].status = CANCELLED,
                                     ![run_id].end_time = t]]
  ELSE [success |-> FALSE, run_history |-> hist]

\* A client sends POST /execution/runs/{run_id}/cancel for a job that has not
\* finished; the request waits for the event loop. while_running records
\* whether the job's dbt process is alive when the request arrives.
CancelRequest(run_id) ==
  /\ run_id \in DOMAIN run_history
  /\ run_history[run_id].status \in {QUEUED, RUNNING}
  /\ \A r \in cancel_requests : r.run_id # run_id
  /\ cancel_requests' = cancel_requests \cup
       {[run_id |-> run_id, while_running |-> (executing = run_id),
         outcome |-> "pending"]}
  /\ lastOp' = NoOp
  /\ UNCHANGED <<now, settings, schedule, runs, nextRunId, run_history,
                 active_runs, executing, taskq, tickPc, dispatched, calc,
                 notification_events, requests, _running, loopctl>>

\* The route handler cancel_run, a coroutine of the event loop: 200 when
\* executor.cancel_run returns True, else 400.
CancelRun ==
  /\ LoopFree
  /\ \E r \in cancel_requests :
       /\ r.outcome = "pending"
       /\ LET res == cancel_run(active_runs, run_history, r.run_id, now) IN
            /\ run_history' = res.run_history
            /\ cancel_requests' = (cancel_requests \ {r}) \cup
                 {[r EXCEPT !.outcome = IF res.success THEN "cancelled" ELSE "refused"]}
            /\ lastOp' = Op("cancel_run", r.run_id,
                            IF res.success THEN "cancelled" ELSE "refused")
  /\ UNCHANGED <<now, settings, schedule, runs, nextRunId, active_runs,
                 executing, taskq, tickPc, dispatched, calc,
                 notification_events, requests, _running, loopctl>>

\* ----------------------------------------------------- schedule requests ----
\* ScheduleUpdate: a field is the empty sequence when the request leaves it
\* out (None), else the one value it carries.
ScheduleUpdate(cron_expression, timezone, retry_policy, enabled) ==
  [cron_expression |-> cron_expression, timezone |-> timezone,
   retry_policy |-> retry_policy, enabled |-> enabled]

\* update_schedule at time t: the fields of the request that are present are
\* stored; next_run_time is computed again only when the request carries a
\* cron expression or a timezone.
update_schedule(db_schedule, schedule_in, t) ==
  LET s1 == IF schedule_in.cron_expression # <<>>
            THEN [db_schedule EXCEPT !.cron_expression = schedule_in.cron_expression[1]]
            ELSE db_schedule
      s2 == IF schedule_in.timezone # <<>>
            THEN [s1 EXCEPT !.timezone = schedule_in.timezone[1]] ELSE s1
      s3 == IF schedule_in.retry_policy # <<>>
            THEN [s2 EXCEPT !.retry_policy = schedule_in.retry_policy[1]] ELSE s2
      s4 == IF schedule_in.enabled # <<>>
            THEN [s3 EXCEPT !.enabled = schedule_in.enabled[1],
                            !.status = IF schedule_in.enabled[1]
                                       THEN "active" ELSE "paused"]
            ELSE s3
  IN IF schedule_in.cron_expression # <<>> \/ schedule_in.timezone # <<>>
     THEN [s4 EXCEPT !.next_run_time =
             _compute_next_run_time(s4.cron_expression, s4.timezone, t)]
     ELSE s4

\* pause_schedule that sets the status and leaves enabled as it is.
pause_schedule_status_only(db_schedule) ==
  [db_schedule EXCEPT !.status = "paused"]

\* pause_schedule: the Schedule row afterwards.
pause_schedule(db_schedule) ==
  [db_schedule EXCEPT !.enabled = FALSE, !.status = "paused"]

\* resume_schedule at time t: the Schedule row afterwards.
resume_schedule(db_schedule, t) ==
  [db_schedule EXCEPT !.enabled = TRUE,
                      !.status = "active",
                      !.next_run_time =
                         _compute_next_run_time(db_schedule.cron_expression,
                                                db_schedule.timezone, t)]

\* The requests below are served by worker threads (the routes are plain
\* functions), so one can be served while a dbt process keeps the event loop
\* busy and between two phases of a tick.

\* POST /schedules/{id}/pause.
PauseSchedule ==
  /\ requests < MaxRequests
  /\ requests' = requests + 1
  /\ schedule' = pause_schedule(schedule)
  /\ lastOp' = Op("pause_schedule", 0, "none")
  /\ UNCHANGED <<now, settings, runs, nextRunId, run_history, active_runs,
                 executing, taskq, tickPc, dispatched, calc,
                 notification_events, cancel_requests, _running, loopctl>>

\* POST /schedules/{id}/resume.
ResumeSchedule ==
  /\ requests < MaxRequests
  /\ requests' = requests + 1
  /\ schedule' = resume_schedule(schedule, now)
  /\ lastOp' = Op("resume_schedule", 0, "none")
  /\ UNCHANGED <<now, settings, runs, nextRunId, run_history, active_runs,
                 executing, taskq, tickPc, dispatched, calc,
                 notification_events, cancel_requests, _running, loopctl>>

\* PUT /schedules/{id} with body schedule_in.
UpdateSchedule(schedule_in) ==
  /\ requests < MaxRequests
  /\ requests' = requests + 1
  /\ schedule' = update_schedule(schedule, schedule_in, now)
  /\ lastOp' = Op("update_schedule", 0, "none")
  /\ UNCHANGED <<now, settings, runs, nextRunId, run_history, active_runs,
                 executing, taskq, tickPc, dispatched, calc,
                 notification_events, cancel_requests, _running, loopctl>>

\* ------------------------------------------------------ the scheduler loop ----
\* The phase a tick is in: the due phase begins a tick.
TickPhase == IF tickPc = "idle" THEN "due" ELSE tickPc

\* A tick whose exception leaves _scheduler_loop: the loop task ends.
TickRaises_fatal ==
  /\ tickPc = "idle" => (_running /\ LoopAlive /\ LoopFree)
  /\ tickPc' = "ended"
  /\ lastOp' = Op("tick_raised", 0, TickPhase)
  /\ UNCHANGED <<now, settings, schedule, runs, nextRunId, run_history,
                 active_runs, executing, taskq, dispatched, calc, aux>>

\* _scheduler_loop: the tick raises an Exception at the start of the phase it
\* is in (the store fails, say); the finally of _tick closes the session, the
\* loop logs the exception and sleeps until the next tick.
TickRaises ==
  /\ tickPc = "idle" => (_running /\ LoopAlive /\ LoopFree)
  /\ tickPc' = "idle"
  /\ lastOp' = Op("tick_raised", 0, TickPhase)
  /\ UNCHANGED <<now, settings, schedule, runs, nextRunId, run_history,
                 active_runs, executing, taskq, dispatched, calc, aux>>

\* start_scheduler: nothing when the scheduler is disabled or a task is
\* registered, else _running is set and a new loop task is created.
start_scheduler ==
  /\ LoopFree
  /\ IF ~settings.scheduler_enabled \/ _scheduler_task # None
     THEN /\ UNCHANGED <<_running, loopctl>>
          /\ lastOp' = Op("start_scheduler", 0, "noop")
     ELSE /\ Len(loop_tasks) < MaxLoops
          /\ _running' = TRUE
          /\ loop_tasks' = Append(loop_tasks, TRUE)
          /\ _scheduler_task' = Len(loop_tasks) + 1
          /\ UNCHANGED stop_waiting
          /\ lastOp' = Op("start_scheduler", 0, "started")
  /\ UNCHANGED <<now, settings, schedule, runs, nextRunId, run_history,
                 active_runs, executing, taskq, tickPc, dispatched, calc,
                 notification_events, requests, cancel_requests>>

\* stop_scheduler up to its await: nothing when no task is registered, else
\* _running is cleared and the call waits for the registered task.
stop_scheduler ==
  /\ LoopFree
  /\ IF _scheduler_task = None
     THEN /\ UNCHANGED <<_running, loopctl>>
          /\ lastOp' = Op("stop_scheduler", 0, "noop")
     ELSE /\ Len(stop_waiting) < MaxStops
          /\ _running' = FALSE
          /\ stop_waiting' = Append(stop_waiting, _scheduler_task)
          /\ UNCHANGED <<_scheduler_task, loop_tasks>>
          /\ lastOp' = Op("stop_scheduler", 0, "waiting")
  /\ UNCHANGED <<now, settings, schedule, runs, nextRunId, run_history,
                 active_runs, executing, taskq, tickPc, dispatched, calc,
                 notification_events, requests, cancel_requests>>

\* _scheduler_loop of task t: woken from its sleep (or not yet begun) it
\* finds _running false and returns.
SchedulerLoopEnds ==
  /\ LoopFree
  /\ ~_running
  /\ \E t \in DOMAIN loop_tasks :
       /\ loop_tasks[t]
       /\ loop_tasks' = [loop_tasks EXCEPT ![t] = FALSE]
       /\ lastOp' = Op("loop_ended", t, "none")
  /\ UNCHANGED <<now, settings, schedule, runs, nextRunId, run_history,
                 active_runs, executing, taskq, tickPc, dispatched, calc,
                 notification_events, requests, cancel_requests,
                 _running, _scheduler_task, stop_waiting>>

\* stop_scheduler after its await: the task it waited for has returned, the
\* finally clause clears _scheduler_task. Calls that wait for the same task
\* are woken in the order they began to wait.
StopSchedulerReturns ==
  /\ LoopFree
  /\ \E k \in 1..Len(stop_waiting) :
       /\ ~loop_tasks[stop_waiting[k]]
       /\ \A j \in 1..(k - 1) : stop_waiting[j] # stop_waiting[k]
       /\ stop_waiting' = SubSeq(stop_waiting, 1, k - 1)
                            \o SubSeq(stop_waiting, k + 1, Len(stop_waiting))
  /\ _scheduler_task' = None
  /\ lastOp' = Op("stop_scheduler", 0, "returned")
  /\ UNCHANGED <<now, settings, schedule, runs, nextRunId, run_history,
                 active_runs, executing, taskq, tickPc, dispatched, calc,
                 notification_events, requests, cancel_requests,
                 _running, loop_tasks>>

\* The application is stopped and started again (lifespan) with
\* MAX_CONCURRENT_RUNS raised from 0 to max_concurrent_runs, at a moment
\* when the event loop has no task left and no tick is under way: the store
\* stays, Settings() is read anew, start_scheduler starts the loop. No job
\* exists yet, so the new executor's empty run_history is the old one.
Restart(max_concurrent_runs) ==
  /\ LoopFree
  /\ taskq = <<>>
  /\ settings.max_concurrent_runs = 0
  /\ settings' = [settings EXCEPT !.max_concurrent_runs = max_concurrent_runs]
  /\ _running' = TRUE
  /\ _scheduler_task' = 1
  /\ loop_tasks' = <<TRUE>>
  /\ stop_waiting' = <<>>
  /\ lastOp' = Op("restart", 0, "none")
  /\ UNCHANGED <<now, schedule, runs, nextRunId, run_history, active_runs,
                 executing, taskq, tickPc, dispatched, calc,
                 notification_events, requests, cancel_requests>>

\* --------------------------------------------------------- specification ----
RetryPolicy(max_retries, delay_seconds, backoff_strategy, max_delay_seconds) ==
  [max_retries |-> max_retries, delay_seconds |-> delay_seconds,
   backoff_strategy |-> backoff_strategy, max_delay_seconds |-> max_delay_seconds]

RetentionPolicy(keep_last_n_runs, keep_for_n_days, action) ==
  [keep_last_n_runs |-> keep_last_n_runs, keep_for_n_days |-> keep_for_n_days,
   action |-> action]

\* create_schedule at time t: the Schedule row.
create_schedule(enabled, cron, tz, catch_up, overlap, retry, retention, env_retention, t) ==
  [enabled |-> enabled,
   status |-> IF enabled THEN "active" ELSE "paused",
   cron_expression |-> cron,
   timezone |-> tz,
   catch_up_policy |-> catch_up,
   overlap_policy |-> overlap,
   retry_policy |-> retry,
   notification_config |-> NotificationConfig(<<>>, <<>>, <<>>),
   retention_policy |-> retention,
   default_retention_policy |-> env_retention,
   environment_exists |-> TRUE,
   next_run_time |-> _compute_next_run_time(cron, tz, t),
   last_run_time |-> None]

NoCalc == [retry_policy |-> RetryPolicy(0, 60, FIXED, None), attempt_number |-> 1,
           result |-> None]

InitCommon ==
  /\ now = 0
  /\ runs = <<>>
  /\ nextRunId = 1
  /\ run_history = <<>>
  /\ active_runs = {}
  /\ executing = None
  /\ taskq = <<>>
  /\ tickPc = "idle"
  /\ dispatched = [p \in RunIds \X NotificationTrigger |-> 0]
  /\ lastOp = NoOp
  /\ notification_events = <<>>
  /\ requests = 0
  /\ cancel_requests = {}
  /\ _running = TRUE
  /\ _scheduler_task = 1
  /\ loop_tasks = <<TRUE>>
  /\ stop_waiting = <<>>

\* Settings(): MAX_CONCURRENT_RUNS and SCHEDULER_MAX_CATCHUP_RUNS are read from
\* the environment without validation.
Settings ==
  [max_concurrent_runs : 0..MaxConcurrent,
   scheduler_max_catchup_runs : 1..MaxCatchup,
   scheduler_enabled : {TRUE}]

RetryPolicies ==
  {RetryPolicy(m, 1, FIXED, None) : m \in (-1)..MaxRetries}

\* Schedules as create_schedule stores them: enabled ones under every policy,
\* and ones created with enabled = False, which only "run now" can fire.
Schedules ==
  {create_schedule(TRUE, 1, 0, catch_up, overlap, retry, <<>>, <<>>, 0) :
     catch_up \in {SKIP, CATCH_UP}, overlap \in {NO_OVERLAP, ALLOW_OVERLAP},
     retry \in RetryPolicies}
  \cup {create_schedule(FALSE, 1, 0, SKIP, NO_OVERLAP, retry, <<>>, <<>>, 0) :
          retry \in RetryPolicies}

Init ==
  /\ InitCommon
  /\ calc = NoCalc
  /\ settings \in Settings
  /\ schedule \in Schedules

RetentionPolicies ==
  {RetentionPolicy(n, d, a) : n \in {None, 1}, d \in {None, 1}, a \in {ARCHIVE, DELETE}}

\* Enabled schedules with a retention policy of their own and one retry, and
\* schedules created with enabled = False that fall back on the default
\* retention policy of their environment, which sets both limits.
RetentionSchedules ==
  {create_schedule(TRUE, 1, 0, CATCH_UP, ALLOW_OVERLAP, RetryPolicy(1, 1, FIXED, None),
                   <<retention>>, <<>>, 0) : retention \in RetentionPolicies}
  \cup {create_schedule(FALSE, 1, 0, CATCH_UP, ALLOW_OVERLAP, RetryPolicy(0, 1, FIXED, None),
                        <<>>, <<RetentionPolicy(1, 1, a)>>, 0) : a \in {ARCHIVE, DELETE}}

InitRetention ==
  /\ InitCommon
  /\ calc = NoCalc
  /\ settings = [max_concurrent_runs |-> 1, scheduler_max_catchup_runs |-> MaxCatchup,
                 scheduler_enabled |-> TRUE]
  /\ schedule \in RetentionSchedules

\* Inputs of compute_retry_delay.
DelayInputs ==
  [retry_policy : {RetryPolicy(3, d, s, c) : d \in {1, 2, 3, 10},
                                             s \in {FIXED, EXPONENTIAL},
                                             c \in {None, 0, 2, 4, 40}},
   attempt_number : 1..MaxN,
   result : {None}]

InitDelay ==
  /\ InitCommon
  /\ settings = [max_concurrent_runs |-> 1, scheduler_max_catchup_runs |-> MaxCatchup,
                 scheduler_enabled |-> TRUE]
  /\ schedule = create_schedule(TRUE, 1, 0, SKIP, NO_OVERLAP, RetryPolicy(0, 60, FIXED, None),
                                <<>>, <<>>, 0)
  /\ calc \in DelayInputs

\* A call compute_retry_delay(retry_policy, attempt_number).
ComputeRetryDelay ==
  /\ calc.result = None
  /\ calc' = [calc EXCEPT !.result = compute_retry_delay(calc.retry_policy,
                                                         calc.attempt_number)]
  /\ UNCHANGED <<now, settings, schedule, runs, nextRunId, run_history,
                 active_runs, executing, taskq, tickPc, dispatched, lastOp, aux>>

NextDelay == ComputeRetryDelay

Next ==
  \/ Advance
  \/ RunScheduleNow
  \/ StartAttemptAsync
  \/ ExecuteRunBegin
  \/ ExecuteRunSpawnFails
  \/ \E return_code \in {0, 1} : ExecuteRunEnd(return_code)
  \/ SendAndRecordNotifications
  \/ TickDue
  \/ TickSync
  \/ TickRetries
  \/ TickRetention

Spec == Init /\ [][Next]_vars

SpecRetention == InitRetention /\ [][Next]_vars

SpecDelay == InitDelay /\ [][NextDelay]_vars

\* Notification configurations: channels that are missing, disabled, enabled
\* with and without a subscription to the trigger at hand, and an email
\* channel without recipients.
NotificationConfigs ==
  {NotificationConfig(<<ChannelConfig(TRUE, {RUN_FAILED}, TRUE)>>, <<>>,
                      <<ChannelConfig(TRUE, NotificationTrigger, TRUE)>>),
   NotificationConfig(<<ChannelConfig(FALSE, NotificationTrigger, TRUE)>>,
                      <<ChannelConfig(TRUE, {}, TRUE)>>, <<>>),
   NotificationConfig(<<>>, <<ChannelConfig(TRUE, NotificationTrigger, FALSE)>>,
                      <<ChannelConfig(TRUE, {RUN_STARTED}, TRUE)>>),
   NotificationConfig(<<ChannelConfig(TRUE, NotificationTrigger, TRUE)>>,
                      <<ChannelConfig(TRUE, NotificationTrigger, FALSE)>>,
                      <<ChannelConfig(FALSE, NotificationTrigger, TRUE)>>)}

\* Schedules created with enabled = False and a notification configuration;
\* their runs come from "run now".
InitNotify ==
  /\ InitCommon
  /\ calc = NoCalc
  /\ settings = [max_concurrent_runs |-> 1, scheduler_max_catchup_runs |-> MaxCatchup,
                 scheduler_enabled |-> TRUE]
  /\ \E notification_config \in NotificationConfigs :
       schedule = [create_schedule(FALSE, 1, 0, SKIP, NO_OVERLAP,
                                   RetryPolicy(0, 1, FIXED, None), <<>>, <<>>, 0)
                   EXCEPT !.notification_config = notification_config]

NextNotify ==
  \/ RunScheduleNow
  \/ ExecuteRunBegin
  \/ ExecuteRunSpawnFails
  \/ \E return_code \in {0, 1} : ExecuteRunEnd(return_code)
  \/ SendAndRecordNotifications
  \/ TickDue
  \/ TickSync
  \/ TickRetries
  \/ TickRetention

SpecNotify == InitNotify /\ [][NextNotify]_vars

\* Update requests: enable or disable, break or repair the cron expression or
\* the timezone, change the retry policy.
ScheduleUpdates ==
  {ScheduleUpdate(<<>>, <<>>, <<>>, <<e>>) : e \in BOOLEAN}
  \cup {ScheduleUpdate(<<c>>, <<>>, <<>>, <<>>) : c \in {0, 1}}
  \cup {ScheduleUpdate(<<>>, <<z>>, <<>>, <<>>) : z \in {None, 0}}
  \cup {ScheduleUpdate(<<>>, <<>>, <<RetryPolicy(m, 1, FIXED, None)>>, <<>>) : m \in {0, 1}}

\* Enabled schedules: with a cron expression or a timezone that is valid or
\* not, and one whose environment_id names no environment (create_schedule
\* looks the environment up only when a workspace is given).
LifecycleSchedules ==
  {create_schedule(TRUE, c, z, catch_up, NO_OVERLAP, RetryPolicy(1, 1, FIXED, None),
                   <<>>, <<>>, 0) :
     c \in {0, 1}, z \in {None, 0}, catch_up \in {SKIP, CATCH_UP}}
  \cup {[create_schedule(TRUE, 1, 0, CATCH_UP, NO_OVERLAP, RetryPolicy(1, 1, FIXED, None),
                         <<>>, <<>>, 0) EXCEPT !.environment_exists = FALSE]}

InitLifecycle ==
  /\ InitCommon
  /\ calc = NoCalc
  /\ settings \in [max_concurrent_runs : {1},
                   scheduler_max_catchup_runs : {0, MaxCatchup},
                   scheduler_enabled : {TRUE}]
  /\ schedule \in LifecycleSchedules

NextLifecycle ==
  \/ Advance
  \/ StartAttemptAsync
  \/ ExecuteRunBegin
  \/ ExecuteRunSpawnFails
  \/ \E return_code \in {0, 1} : ExecuteRunEnd(return_code)
  \/ SendAndRecordNotifications
  \/ TickDue
  \/ TickSync
  \/ TickRetries
  \/ TickRetention
  \/ PauseSchedule
  \/ ResumeSchedule
  \/ \E schedule_in \in ScheduleUpdates : UpdateSchedule(schedule_in)

SpecLifecycle == InitLifecycle /\ [][NextLifecycle]_vars

\* A schedule created with enabled = False and one retry that needs no
\* delay; its runs come from "run now".
InitCancel ==
  /\ InitCommon
  /\ calc = NoCalc
  /\ settings = [max_concurrent_runs |-> 1, scheduler_max_catchup_runs |-> MaxCatchup,
                 scheduler_enabled |-> TRUE]
  /\ schedule = create_schedule(FALSE, 1, 0, SKIP, NO_OVERLAP,
                                RetryPolicy(1, 0, FIXED, None), <<>>, <<>>, 0)

NextCancel ==
  \/ RunScheduleNow
  \/ ExecuteRunBegin
  \/ ExecuteRunSpawnFails
  \/ \E return_code \in {0, 1} : ExecuteRunEnd(return_code)
  \/ SendAndRecordNotifications
  \/ TickDue
  \/ TickSync
  \/ TickRetries
  \/ TickRetention
  \/ \E run_id \in DOMAIN run_history : CancelRequest(run_id)
  \/ CancelRun

SpecCancel == InitCancel /\ [][NextCancel]_vars

\* Retry policies with a fixed and with a doubling delay.
DelayedRetryPolicies ==
  {RetryPolicy(m, d, FIXED, None) : m \in 0..MaxRetries, d \in {0, 1}}
  \cup {RetryPolicy(m, 1, EXPONENTIAL, None) : m \in 1..MaxRetries}

\* Schedules created with enabled = False under each of these retry
\* policies; their runs come from "run now".
InitRetry ==
  /\ InitCommon
  /\ calc = NoCalc
  /\ settings = [max_concurrent_runs |-> 1, scheduler_max_catchup_runs |-> MaxCatchup,
                 scheduler_enabled |-> TRUE]
  /\ \E retry \in DelayedRetryPolicies :
       schedule = create_schedule(FALSE, 1, 0, SKIP, NO_OVERLAP, retry, <<>>, <<>>, 0)

NextRetry ==
  \/ Advance
  \/ RunScheduleNow
  \/ ExecuteRunBegin
  \/ ExecuteRunSpawnFails
  \/ \E return_code \in {0, 1} : ExecuteRunEnd(return_code)
  \/ SendAndRecordNotifications
  \/ TickDue
  \/ TickSync
  \/ TickRetries
  \/ TickRetention

SpecRetry == InitRetry /\ [][NextRetry]_vars

\* Retention policies without limits and with keep_last_n_runs = 1, for both
\* actions.
CascadeRetentionPolicies ==
  {RetentionPolicy(n, None, a) : n \in {None, 1}, a \in {ARCHIVE, DELETE}}

\* A schedule created with enabled = False, without retries, with a slack
\* channel subscribed to run_failed and a webhook subscribed to every trigger,
\* and with a retention policy; its runs come from "run now".
InitCascade ==
  /\ InitCommon
  /\ calc = NoCalc
  /\ settings = [max_concurrent_runs |-> 1, scheduler_max_catchup_runs |-> MaxCatchup,
                 scheduler_enabled |-> TRUE]
  /\ \E retention \in CascadeRetentionPolicies :
       schedule = [create_schedule(FALSE, 1, 0, SKIP, NO_OVERLAP,
                                   RetryPolicy(0, 1, FIXED, None), <<retention>>, <<>>, 0)
                   EXCEPT !.notification_config =
                     NotificationConfig(<<ChannelConfig(TRUE, {RUN_FAILED}, TRUE)>>, <<>>,
                                        <<ChannelConfig(TRUE, NotificationTrigger, TRUE)>>)]

NextCascade ==
  \/ RunScheduleNow
  \/ ExecuteRunBegin
  \/ ExecuteRunSpawnFails
  \/ \E return_code \in {0, 1} : ExecuteRunEnd(return_code)
  \/ SendAndRecordNotifications
  \/ TickDue
  \/ TickSync
  \/ TickRetries
  \/ TickRetention

SpecCascade == InitCascade /\ [][NextCascade]_vars

\* An application started with MAX_CONCURRENT_RUNS = 0: every launch is
\* refused until it is started again with MAX_CONCURRENT_RUNS = 1. Schedules
\* with and without a retry, fired by cron or by "run now".
InitRestart ==
  /\ InitCommon
  /\ calc = NoCalc
  /\ settings = [max_concurrent_runs |-> 0, scheduler_max_catchup_runs |-> MaxCatchup,
                 scheduler_enabled |-> TRUE]
  /\ \E enabled \in BOOLEAN, m \in {0, 1} :
       schedule = create_schedule(enabled, 1, 0, SKIP, ALLOW_OVERLAP,
                                  RetryPolicy(m, 0, FIXED, None), <<>>, <<>>, 0)

NextRestart ==
  \/ Advance
  \/ RunScheduleNow
  \/ StartAttemptAsync
  \/ ExecuteRunBegin
  \/ ExecuteRunSpawnFails
  \/ \E return_code \in {0, 1} : ExecuteRunEnd(return_code)
  \/ SendAndRecordNotifications
  \/ TickDue
  \/ TickSync
  \/ TickRetries
  \/ TickRetention
  \/ \E max_concurrent_runs \in 1..MaxConcurrent : Restart(max_concurrent_runs)

SpecRestart == InitRestart /\ [][NextRestart]_vars

\* The application before start_scheduler was ever called (_running = False,
\* _scheduler_task = None), with the scheduler enabled or disabled by
\* SCHEDULER_ENABLED, and an enabled schedule without retries.
InitScheduler ==
  /\ now = 0
  /\ runs = <<>>
  /\ nextRunId = 1
  /\ run_history = <<>>
  /\ active_runs = {}
  /\ executing = None
  /\ taskq = <<>>
  /\ tickPc = "idle"
  /\ dispatched = [p \in RunIds \X NotificationTrigger |-> 0]
  /\ lastOp = NoOp
  /\ notification_events = <<>>
  /\ requests = 0
  /\ cancel_requests = {}
  /\ calc = NoCalc
  /\ _running = FALSE
  /\ _scheduler_task = None
  /\ loop_tasks = <<>>
  /\ stop_waiting = <<>>
  /\ settings \in [max_concurrent_runs : {1},
                   scheduler_max_catchup_runs : {MaxCatchup},
                   scheduler_enabled : BOOLEAN]
  /\ schedule = create_schedule(TRUE, 1, 0, SKIP, NO_OVERLAP,
                                RetryPolicy(0, 1, FIXED, None), <<>>, <<>>, 0)

\* start_scheduler and stop_scheduler called at any time and in any order,
\* also while an earlier stop_scheduler is at its await.
NextScheduler ==
  \/ Advance
  \/ StartAttemptAsync
  \/ ExecuteRunBegin
  \/ ExecuteRunSpawnFails
  \/ \E return_code \in {0, 1} : ExecuteRunEnd(return_code)
  \/ SendAndRecordNotifications
  \/ TickDue
  \/ TickSync
  \/ TickRetries
  \/ TickRetention
  \/ start_scheduler
  \/ stop_scheduler
  \/ SchedulerLoopEnds
  \/ StopSchedulerReturns

SpecScheduler == InitScheduler /\ [][NextScheduler]_vars

\* The same with stop_scheduler called only when no earlier call of it is
\* at its await.
NextSchedulerNoOverlap ==
  \/ Advance
  \/ StartAttemptAsync
  \/ ExecuteRunBegin
  \/ ExecuteRunSpawnFails
  \/ \E return_code \in {0, 1} : ExecuteRunEnd(return_code)
  \/ SendAndRecordNotifications
  \/ TickDue
  \/ TickSync
  \/ TickRetries
  \/ TickRetention
  \/ start_scheduler
  \/ (stop_waiting = <<>> /\ stop_scheduler)
  \/ SchedulerLoopEnds
  \/ StopSchedulerReturns

SpecSchedulerNoOverlap == InitScheduler /\ [][NextSchedulerNoOverlap]_vars

\* Update requests that move the cron slots: another period, another
\* timezone, or a switch of enabled.
SlotUpdates ==
  {ScheduleUpdate(<<c>>, <<>>, <<>>, <<>>) : c \in {1, 2}}
  \cup {ScheduleUpdate(<<>>, <<z>>, <<>>, <<>>) : z \in {0, 1}}
  \cup {ScheduleUpdate(<<>>, <<>>, <<>>, <<e>>) : e \in BOOLEAN}

\* Enabled schedules without retries whose runs may overlap, with slots at
\* every instant or every second one, in UTC or one unit east of it.
InitSlots ==
  /\ InitCommon
  /\ calc = NoCalc
  /\ settings = [max_concurrent_runs |-> 1, scheduler_max_catchup_runs |-> MaxCatchup,
                 scheduler_enabled |-> TRUE]
  /\ \E c \in {1, 2}, z \in {0, 1}, catch_up \in {SKIP, CATCH_UP} :
       schedule = create_schedule(TRUE, c, z, catch_up, ALLOW_OVERLAP,
                                  RetryPolicy(0, 1, FIXED, None), <<>>, <<>>, 0)

NextSlots ==
  \/ Advance
  \/ StartAttemptAsync
  \/ ExecuteRunBegin
  \/ ExecuteRunSpawnFails
  \/ \E return_code \in {0, 1} : ExecuteRunEnd(return_code)
  \/ SendAndRecordNotifications
  \/ TickDue
  \/ TickSync
  \/ TickRetries
  \/ TickRetention
  \/ PauseSchedule
  \/ ResumeSchedule
  \/ \E schedule_in \in SlotUpdates : UpdateSchedule(schedule_in)

SpecSlots == InitSlots /\ [][NextSlots]_vars

\* A schedule created with enabled = False and without retries; its runs come
\* from "run now".
InitLoop ==
  /\ InitCommon
  /\ calc = NoCalc
  /\ settings = [max_concurrent_runs |-> 1, scheduler_max_catchup_runs |-> MaxCatchup,
                 scheduler_enabled |-> TRUE]
  /\ schedule = create_schedule(FALSE, 1, 0, SKIP, NO_OVERLAP,
                                RetryPolicy(0, 1, FIXED, None), <<>>, <<>>, 0)

NextLoop ==
  \/ RunScheduleNow
  \/ ExecuteRunBegin
  \/ ExecuteRunSpawnFails
  \/ \E return_code \in {0, 1} : ExecuteRunEnd(return_code)
  \/ SendAndRecordNotifications
  \/ TickDue
  \/ TickSync
  \/ TickRetries
  \/ TickRetention
  \/ TickRaises
  \/ stop_scheduler
  \/ SchedulerLoopEnds
  \/ StopSchedulerReturns

\* The loop wakes up after each sleep whenever the event loop is free again
\* (asyncio serves its ready tasks in turn), and a dbt process that was
\* spawned exits.
SpecLoop ==
  /\ InitLoop
  /\ [][NextLoop]_vars
  /\ SF_vars(TickDue)
  /\ WF_vars(\E return_code \in {0, 1} : ExecuteRunEnd(return_code))

\* ======================================================== properties ====
\* A run is non-terminal: it has an attempt that is QUEUED or RUNNING, or it
\* failed an attempt and waits for its retry.
NonTerminalRun(run) ==
  \/ \E i \in 1..Len(run.attempts) : run.attempts[i].status \in {QUEUED, RUNNING}
  \/ run.status = FAILURE /\ run.retry_status = IN_PROGRESS

NonTerminalRuns == {id \in DOMAIN runs : NonTerminalRun(runs[id])}

FailedExhausted(run) == run.status = FAILURE /\ run.retry_status = EXHAUSTED

\* Cron slots, defined without the evaluator: the instants whose local time
\* is a multiple of the period.
IsSlot(sched, t) == (t + sched.timezone) % sched.cron_expression = 0

MissedSlots(sched, t) ==
  {u \in 0..t : u >= sched.next_run_time /\ IsSlot(sched, u)}

NextSlotAfter(sched, t) ==
  CHOOSE u \in (t + 1)..(t + sched.cron_expression) : IsSlot(sched, u)

NthSlot(S, i) == CHOOSE u \in S : Cardinality({v \in S : v < u}) = i - 1

TickDueStep == tickPc = "idle" /\ tickPc' = "sync"

\* C1: a NO_OVERLAP schedule never has two non-terminal ScheduledRuns.
C1_NoOverlap ==
  schedule.overlap_policy = NO_OVERLAP => Cardinality(NonTerminalRuns) <= 1

\* C2: with catch_up_policy SKIP a tick that finds the schedule due creates
\* exactly one ScheduledRun, for the earliest missed slot, and leaves
\* next_run_time at the first slot strictly after now (so no other missed
\* slot ever gets a run).
C2_SkipRunsOnceAndJumps ==
  [][(TickDueStep /\ schedule.catch_up_policy = SKIP
        /\ find_due_schedules(schedule, now))
     => /\ DOMAIN runs' \ DOMAIN runs = {nextRunId}
        /\ runs'[nextRunId].scheduled_at = schedule.next_run_time
        /\ schedule'.next_run_time = NextSlotAfter(schedule, now)]_vars

\* C3: with catch_up_policy CATCH_UP a tick that finds k missed slots creates
\* min(k, max_catchup_runs) CRON runs, one per missed slot in increasing
\* order with scheduled_at equal to the slot; when k <= max_catchup_runs,
\* next_run_time afterwards is the first slot strictly after now.
C3_CatchUpOnePerSlot ==
  [][(TickDueStep /\ schedule.catch_up_policy = CATCH_UP
        /\ find_due_schedules(schedule, now))
     => LET missed == MissedSlots(schedule, now)
            k == Cardinality(missed)
            c == Min(k, settings.scheduler_max_catchup_runs)
        IN /\ DOMAIN runs' \ DOMAIN runs = nextRunId..(nextRunId + c - 1)
           /\ \A i \in 1..c :
                /\ runs'[nextRunId + i - 1].scheduled_at = NthSlot(missed, i)
                /\ runs'[nextRunId + i - 1].triggering_event = CRON
           /\ k <= settings.scheduler_max_catchup_runs
                => schedule'.next_run_time = NextSlotAfter(schedule, now)]_vars

C3_Witness ==
  /\ lastOp.op = "tick_due"
  /\ lastOp.created >= 2
  /\ schedule.catch_up_policy = CATCH_UP
  /\ schedule.next_run_time > now
  /\ \E id \in DOMAIN runs : (id + 1) \in DOMAIN runs
        /\ runs[id].scheduled_at < runs[id + 1].scheduled_at

\* C4: RUN_FAILED is dispatched for a run exactly at the status sync that
\* makes it FAILURE with retry_status EXHAUSTED, never at a failed attempt
\* that leaves retries, never twice; a step dispatches at most one
\* notification per run.
C4_RunFailedOnceAtExhaustion ==
  [][\A id \in RunIds :
       LET inc(trigger) == dispatched'[<<id, trigger>>] - dispatched[<<id, trigger>>]
           becomesExhausted ==
             /\ tickPc = "sync"
             /\ id \in DOMAIN runs'
             /\ FailedExhausted(runs'[id])
             /\ ~(id \in DOMAIN runs /\ FailedExhausted(runs[id]))
       IN /\ \A trigger \in NotificationTrigger : inc(trigger) \in {0, 1}
          /\ Cardinality({trigger \in NotificationTrigger : inc(trigger) = 1}) <= 1
          /\ inc(RUN_FAILED) = IF becomesExhausted THEN 1 ELSE 0
          /\ dispatched'[<<id, RUN_FAILED>>] <= 1]_vars

C4_Witness ==
  \E id \in DOMAIN runs :
    /\ runs[id].attempts_total = 3
    /\ \A i \in 1..Len(runs[id].attempts) : runs[id].attempts[i].status = FAILED
    /\ FailedExhausted(runs[id])
    /\ dispatched[<<id, RUN_FAILED>>] = 1

\* The status sync has just seen the latest attempt of run id fail.
JustFailed(id) ==
  /\ tickPc = "sync"
  /\ runs[id].attempts # <<>>
  /\ Last(runs[id].attempts).status \in {QUEUED, RUNNING}
  /\ Last(runs'[id].attempts).status = FAILED

\* C5 as stated: after a failed attempt retry_status is EXHAUSTED exactly
\* when max_retries <= 0 or attempts_total > max_retries + 1, else IN_PROGRESS.
C5_ExhaustedBeyondLimitPlusOne ==
  [][\A id \in DOMAIN runs :
       JustFailed(id)
       => LET p == schedule.retry_policy
              n == runs'[id].attempts_total
          IN /\ runs'[id].status = FAILURE
             /\ runs'[id].retry_status =
                  IF p.max_retries <= 0 \/ n > p.max_retries + 1
                  THEN EXHAUSTED ELSE IN_PROGRESS]_vars

\* C5 amended: after a failed attempt retry_status is EXHAUSTED exactly when
\* the run has used its max_retries + 1 attempts (attempts_total >=
\* max_retries + 1, which covers max_retries <= 0), else IN_PROGRESS; with
\* max_retries = 2 it is IN_PROGRESS at attempts_total 1 and 2, EXHAUSTED at 3.
C5_ExhaustedAtLimit ==
  [][\A id \in DOMAIN runs :
       JustFailed(id)
       => LET p == schedule.retry_policy
              n == runs'[id].attempts_total
          IN /\ runs'[id].status = FAILURE
             /\ runs'[id].retry_status =
                  IF n >= p.max_retries + 1 THEN EXHAUSTED ELSE IN_PROGRESS
             /\ p.max_retries = 2 /\ n \in {1, 2} => runs'[id].retry_status = IN_PROGRESS
             /\ p.max_retries = 2 /\ n = 3 => runs'[id].retry_status = EXHAUSTED]_vars

C5_Witness ==
  /\ tickPc = "retries"
  /\ schedule.retry_policy.max_retries = 2
  /\ \E id \in DOMAIN runs :
       /\ runs[id].attempts_total = 3
       /\ Last(runs[id].attempts).status = FAILED
       /\ runs[id].retry_status = EXHAUSTED

\* The delay of the design text, by repeated doubling.
RECURSIVE Doubled(_, _)
Doubled(d, n) == IF n <= 1 THEN d ELSE 2 * Doubled(d, n - 1)

ReferenceDelay(p, n) ==
  IF p.backoff_strategy = FIXED THEN p.delay_seconds
  ELSE IF p.max_delay_seconds = None THEN Doubled(p.delay_seconds, n)
  ELSE Min(Doubled(p.delay_seconds, n), p.max_delay_seconds)

\* C6: compute_retry_delay(policy, n) is delay_seconds for FIXED and
\* delay_seconds * 2^(n-1), capped at max_delay_seconds when set, for
\* EXPONENTIAL; delay 10 with cap 40 gives 10, 20, 40, 40.
C6_DelayIsReference ==
  calc.result # None
  => /\ calc.result = ReferenceDelay(calc.retry_policy, calc.attempt_number)
     /\ (calc.retry_policy.backoff_strategy = EXPONENTIAL
           /\ calc.retry_policy.delay_seconds = 10
           /\ calc.retry_policy.max_delay_seconds = 40
           /\ calc.attempt_number <= 4)
        => calc.result = <<10, 20, 40, 40>>[calc.attempt_number]

C6_Witness ==
  /\ calc.retry_policy.backoff_strategy = EXPONENTIAL
  /\ calc.retry_policy.delay_seconds = 10
  /\ calc.retry_policy.max_delay_seconds = 40
  /\ calc.attempt_number = 4
  /\ calc.result = 40

\* The retention pass changed or removed run id.
ActedOn(id) == id \notin DOMAIN runs' \/ runs'[id] # runs[id]

\* C7: a retention pass leaves every non-terminal run untouched.
C7_RetentionSparesActiveRuns ==
  [][tickPc = "retention"
     => \A id \in DOMAIN runs : NonTerminalRun(runs[id]) => ~ActedOn(id)]_vars

\* C8: with keep_last_n_runs = N and keep_for_n_days = D both set, a
\* retention pass acts on a run only if at least N other runs are at least
\* as new and its scheduled_at is older than now - D days.
C8_ActsOnlyBeyondBothLimits ==
  [][(tickPc = "retention" /\ EffectiveRetention(schedule) # <<>>)
     => LET policy == EffectiveRetention(schedule)[1] IN
        (policy.keep_last_n_runs # None /\ policy.keep_for_n_days # None)
        => \A id \in DOMAIN runs :
             ActedOn(id)
             => /\ Cardinality({o \in DOMAIN runs \ {id} :
                      runs[o].scheduled_at >= runs[id].scheduled_at})
                     >= policy.keep_last_n_runs
                /\ runs[id].scheduled_at < now - policy.keep_for_n_days * Day]_vars

C8_Witness ==
  /\ lastOp.op = "tick_retention"
  /\ lastOp.result \in {ARCHIVE, DELETE}
  /\ EffectiveRetention(schedule) # <<>>
  /\ LET policy == EffectiveRetention(schedule)[1] IN
       /\ policy.keep_last_n_runs # None
       /\ policy.keep_for_n_days # None
       /\ \E id \in DOMAIN runs :
            /\ RetentionFinal(runs[id])
            /\ runs[id].has_links
            /\ runs[id].scheduled_at < now - policy.keep_for_n_days * Day

\* C9: while a NO_OVERLAP schedule has an active run no step creates a
\* ScheduledRun, and a run-now request ends in a conflict.
C9_NoRunWhileActive ==
  [][(schedule.overlap_policy = NO_OVERLAP /\ NonTerminalRuns # {})
     => /\ DOMAIN runs' \subseteq DOMAIN runs
        /\ lastOp'.op = "run_now" => lastOp'.result = "conflict"]_vars

\* C10: a launch the executor refuses creates no Attempt and no job, leaves
\* the run's attempts_total, status, retry_status and timestamps as they
\* were, and dispatches no notification.
C10_RefusedLaunchChangesNothing ==
  [][lastOp'.result = "refused"
     => /\ run_history' = run_history
        /\ dispatched' = dispatched
        /\ \A id \in DOMAIN runs : runs'[id] = runs[id]
        /\ \A id \in DOMAIN runs' \ DOMAIN runs :
             runs'[id] = create_scheduled_run(schedule, runs, now, MANUAL)[1]
        /\ \A k \in 1..Len(taskq') : taskq'[k].type = "execute_run"
             => \E j \in 1..Len(taskq) : taskq[j] = taskq'[k]]_vars

C10_Witness ==
  /\ lastOp.op = "start_attempt"
  /\ lastOp.result = "refused"
  /\ lastOp.run \in DOMAIN runs
  /\ runs[lastOp.run].attempts_total = 0
  /\ runs[lastOp.run].queued_at = None

\* A step of _send_and_record_notifications: the notification task at the head
\* of the queue runs.
NotificationDispatchStep ==
  /\ LoopFree
  /\ taskq # <<>>
  /\ Head(taskq).type = "notify"
  /\ taskq' = Tail(taskq)

\* The NotificationEvent rows a step adds.
NewNotificationEvents ==
  SubSeq(notification_events', Len(notification_events) + 1, Len(notification_events'))

\* The channel is configured, enabled and subscribed to the trigger.
Subscribed(notification_config, channel, trigger) ==
  LET ch == IF channel = SLACK THEN notification_config.slack
            ELSE IF channel = EMAIL THEN notification_config.email
            ELSE notification_config.webhook
  IN ch # <<>> /\ ch[1].enabled /\ trigger \in ch[1].triggers

\* C11: a dispatch for trigger T records a NotificationEvent (its sender was
\* invoked) only for channels that are configured, enabled and have T in their
\* own triggers list; a channel not subscribed to T receives nothing.
C11_OnlySubscribedChannelsNotified ==
  [][NotificationDispatchStep =>
       \A k \in 1..Len(NewNotificationEvents) :
         Subscribed(schedule.notification_config, NewNotificationEvents[k].channel,
                    Head(taskq).trigger)]_vars

\* C12: a dispatch for an existing run records exactly one NotificationEvent
\* for every enabled channel whatever the other channels' sends did, an event
\* has status failure exactly when it carries an error text (always so for an
\* email channel without recipients), and the run's status, retry_status and
\* attempts are unchanged.
C12_FailureDoesNotStopDispatch ==
  [][(NotificationDispatchStep /\ Head(taskq).run \in DOMAIN runs) =>
       /\ Len(NewNotificationEvents) =
            Cardinality(EnabledChannels(schedule.notification_config))
       /\ \A c \in EnabledChannels(schedule.notification_config) :
            Cardinality({k \in 1..Len(NewNotificationEvents) :
                           NewNotificationEvents[k].channel = c}) = 1
       /\ \A k \in 1..Len(NewNotificationEvents) :
            /\ NewNotificationEvents[k].scheduled_run_id = Head(taskq).run
            /\ NewNotificationEvents[k].trigger = Head(taskq).trigger
            /\ (NewNotificationEvents[k].status = "failure")
                 <=> NewNotificationEvents[k].has_error_message
            /\ (/\ NewNotificationEvents[k].channel = EMAIL
                /\ ~schedule.notification_config.email[1].has_recipients)
                 => NewNotificationEvents[k].status = "failure"
       /\ runs' = runs]_vars

\* A dispatch whose send failed on one channel and that went on to the next
\* channel.
C12_Witness ==
  \E k \in 1..(Len(notification_events) - 1) :
    /\ notification_events[k].status = "failure"
    /\ notification_events[k + 1].scheduled_run_id = notification_events[k].scheduled_run_id
    /\ notification_events[k + 1].trigger = notification_events[k].trigger
    /\ notification_events[k + 1].channel # notification_events[k].channel

\* C13: after an exception raised in any phase of a tick the loop is not
\* ended: as long as the scheduler is not stopped, a next tick begins (its
\* due phase runs and the tick goes on to the status sync).
C13_LoopSurvivesTickException ==
  (lastOp.op = "tick_raised") ~> (tickPc = "sync" \/ ~_running)

\* A tick raised in its retention phase, after the three phases before it
\* worked on a run.
C13_Witness ==
  /\ lastOp.op = "tick_raised"
  /\ lastOp.result = "retention"
  /\ _running
  /\ runs # <<>>

\* C15: in every reachable state the attempts of a run, in creation order,
\* carry the numbers 1, 2, .. attempts_total: no gap, no duplicate, each new
\* attempt above all earlier ones.
C15_AttemptNumbersGapless ==
  \A id \in DOMAIN runs :
    /\ Len(runs[id].attempts) = runs[id].attempts_total
    /\ \A i \in 1..Len(runs[id].attempts) : runs[id].attempts[i].attempt_number = i

\* A run that was retried: it has a second attempt.
C15_Witness ==
  \E id \in DOMAIN runs :
    /\ Len(runs[id].attempts) >= 2
    /\ runs[id].attempts[2].attempt_number = 2

\* The next fire time of the schedule cannot be computed.
Unresolvable(sched) == sched.cron_expression < 1 \/ sched.timezone = None

C17_NextRunTimeAdvances ==
  [][/\ (TickDueStep /\ find_due_schedules(schedule, now)) =>
          schedule'.next_run_time > schedule.next_run_time
     /\ (/\ ~TickDueStep
         /\ schedule'.next_run_time # schedule.next_run_time
         /\ schedule'.next_run_time # None) =>
          schedule'.next_run_time > now]_vars

\* A tick processed a due schedule, created no run for the firing (the
\* environment is missing or no catch-up run is allowed) and moved
\* next_run_time into the future.
C17_Witness ==
  /\ lastOp.op = "tick_due"
  /\ lastOp.result = "due"
  /\ runs = <<>>
  /\ now >= 1
  /\ schedule.next_run_time > now

C19_ReenableStartsAfterNow ==
  [][(~schedule.enabled /\ schedule'.enabled /\ ~Unresolvable(schedule')) =>
       schedule'.next_run_time =
         _compute_next_run_time(schedule'.cron_expression, schedule'.timezone, now)]_vars

\* The status and retry_status that the rules of the attempt launcher and of
\* the status sync give for the attempts of a run under a retry policy.
DerivedStatus(run, retry_policy) ==
  IF run.attempts = <<>> THEN <<SKIPPED, NOT_APPLICABLE>>
  ELSE LET last_attempt == Last(SortedAttempts(run.attempts)) IN
       IF last_attempt.status = SUCCEEDED
       THEN <<SUCCESS, IF Len(run.attempts) <= 1 THEN NOT_APPLICABLE ELSE IN_PROGRESS>>
       ELSE IF last_attempt.status = CANCELLED
       THEN <<RUN_CANCELLED_RESULT, EXHAUSTED>>
       ELSE IF last_attempt.status = FAILED
       THEN <<FAILURE, IF Len(run.attempts) > retry_policy.max_retries
                       THEN EXHAUSTED ELSE IN_PROGRESS>>
       ELSE <<SKIPPED, IF retry_policy.max_retries = 0
                       THEN NOT_APPLICABLE ELSE IN_PROGRESS>>

\* C16: in every reachable state the status and retry_status of every run
\* are the values derived from its attempts and the current retry_policy of
\* the schedule.
C16_StatusDerivedFromAttempts ==
  \A id \in DOMAIN runs :
    <<runs[id].status, runs[id].retry_status>> =
      DerivedStatus(runs[id], schedule.retry_policy)

C20_CancelNeverSucceeds ==
  \A r \in cancel_requests : r.outcome # "cancelled"

\* The jobs that start_run has accepted and that have not finished.
StartedUnfinishedJobs ==
  {run_id \in DOMAIN run_history : run_history[run_id].status \in {QUEUED, RUNNING}}

\* C21: at no time are more than max_concurrent_runs jobs started and not
\* yet finished.
C21_StartedJobsWithinLimit ==
  Cardinality(StartedUnfinishedJobs) <= settings.max_concurrent_runs

\* C22: an attempt after the first is created for a run only when the run's
\* retry_status is IN_PROGRESS, its latest attempt n is FAILED with
\* finished_at set, and now >= finished_at(n) + Delay(policy, n + 1).
C22_RetryNotBeforeDelay ==
  [][\A id \in DOMAIN runs :
       (/\ id \in DOMAIN runs'
        /\ Len(runs[id].attempts) >= 1
        /\ Len(runs'[id].attempts) > Len(runs[id].attempts))
       => LET n == Len(runs[id].attempts)
              last_attempt == runs[id].attempts[n]
          IN /\ Len(runs'[id].attempts) = n + 1
             /\ tickPc = "retries"
             /\ runs[id].retry_status = IN_PROGRESS
             /\ last_attempt.status = FAILED
             /\ last_attempt.finished_at # None
             /\ now >= last_attempt.finished_at
                         + ReferenceDelay(schedule.retry_policy, n + 1)]_vars

\* A retry under a doubling delay of 1: the second attempt was queued two
\* time units or more after the first one finished.
C22_Witness ==
  \E id \in DOMAIN runs :
    /\ schedule.retry_policy.backoff_strategy = EXPONENTIAL
    /\ Len(runs[id].attempts) >= 2
    /\ runs[id].attempts[1].status = FAILED
    /\ runs[id].attempts[2].queued_at >= runs[id].attempts[1].finished_at + 2

\* C23: under a retry policy with max_retries = m >= 0 that is not changed,
\* no run has more than m + 1 attempts, and a run whose attempt m + 1 is
\* recorded as FAILED has status FAILURE and retry_status EXHAUSTED.
C23_AtMostMaxRetriesPlusOne ==
  \A id \in DOMAIN runs :
    LET m == schedule.retry_policy.max_retries
        n == Len(runs[id].attempts)
    IN m >= 0 =>
         /\ n <= m + 1
         /\ (n = m + 1 /\ runs[id].attempts[n].status = FAILED)
              => (runs[id].status = FAILURE /\ runs[id].retry_status = EXHAUSTED)

\* A run with two retries allowed whose three attempts all failed, after a
\* retry phase has passed over it.
C23_Witness ==
  \E id \in DOMAIN runs :
    /\ schedule.retry_policy.max_retries = 2
    /\ Len(runs[id].attempts) = 3
    /\ runs[id].attempts[3].status = FAILED
    /\ runs[id].retry_status = EXHAUSTED
    /\ lastOp.op = "tick_retries"

\* The runs one of whose Attempt rows has status SUCCEEDED.
SucceededRuns(rs) ==
  {id \in DOMAIN rs : \E i \in 1..Len(rs[id].attempts) : rs[id].attempts[i].status = SUCCEEDED}

\* C24: when status sync first records an attempt as SUCCEEDED the run becomes
\* SUCCESS, with retry_status NOT_APPLICABLE after one attempt and IN_PROGRESS
\* after more; from then on, as long as the run exists, its status is SUCCESS
\* and it gets no further attempt.
C24_SuccessIsFinal ==
  [][/\ \A id \in SucceededRuns(runs') \ SucceededRuns(runs) :
          /\ runs'[id].status = SUCCESS
          /\ runs'[id].attempts[Len(runs'[id].attempts)].status = SUCCEEDED
          /\ runs'[id].retry_status =
                IF Len(runs'[id].attempts) = 1 THEN NOT_APPLICABLE ELSE IN_PROGRESS
     /\ \A id \in SucceededRuns(runs) \cap DOMAIN runs' :
          /\ runs[id].status = SUCCESS
          /\ runs'[id].status = SUCCESS
          /\ Len(runs'[id].attempts) = Len(runs[id].attempts)]_vars

\* A run that failed once and succeeded on its second attempt, still
\* IN_PROGRESS and SUCCESS after a later retry phase whose policy would allow
\* a third attempt.
C24_Witness ==
  \E id \in DOMAIN runs :
    /\ schedule.retry_policy.max_retries = 2
    /\ Len(runs[id].attempts) = 2
    /\ runs[id].attempts[1].status = FAILED
    /\ runs[id].attempts[2].status = SUCCEEDED
    /\ runs[id].status = SUCCESS
    /\ runs[id].retry_status = IN_PROGRESS
    /\ lastOp.op = "tick_retries"
    /\ now >= runs[id].attempts[2].finished_at + 1

\* The NotificationEvent rows of the runs outside gone.
EventsOutside(events, gone) ==
  SelectSeq(events, LAMBDA e : e.scheduled_run_id \notin gone)

\* A retention pass with action ARCHIVE, for the candidates c: every row
\* stays, a candidate only loses its links, no NotificationEvent goes.
ArchiveEffect(c) ==
  /\ DOMAIN runs' = DOMAIN runs
  /\ \A id \in c : /\ runs'[id] = [runs[id] EXCEPT !.has_links = FALSE]
                   /\ Len(runs'[id].attempts) = Len(runs[id].attempts)
  /\ notification_events' = notification_events

\* A retention pass with action DELETE, for the candidates c: the candidates
\* go with their Attempts and their NotificationEvents.
DeleteEffect(c) ==
  /\ DOMAIN runs' = DOMAIN runs \ c
  /\ notification_events' = EventsOutside(notification_events, c)

\* The runs outside the candidates c are as they were.
OthersUnchanged(c) ==
  \A id \in DOMAIN runs \ c : id \in DOMAIN runs' /\ runs'[id] = runs[id]

\* C25: a retention pass with action ARCHIVE removes no run and no attempt
\* and changes nothing of a candidate but its links; a pass with action DELETE
\* removes every candidate with its Attempts and NotificationEvents; the runs
\* that are not candidates are unchanged.
C25_RetentionFrameEffect ==
  [][(tickPc = "retention" /\ EffectiveRetention(schedule) # <<>>)
     => LET policy == EffectiveRetention(schedule)[1] IN
        \E keep_ids \in KeepIds(runs, policy) :
          LET c == RetentionCandidates(runs, policy, now, keep_ids) IN
          /\ OthersUnchanged(c)
          /\ policy.action = ARCHIVE => ArchiveEffect(c)
          /\ policy.action = DELETE => DeleteEffect(c)]_vars

\* What holds of a retention pass: the same, except that a pass with action
\* DELETE and at least one candidate can also fail and remove nothing.
C25_FrameEffectOrNothing ==
  [][(tickPc = "retention" /\ EffectiveRetention(schedule) # <<>>)
     => LET policy == EffectiveRetention(schedule)[1] IN
        \E keep_ids \in KeepIds(runs, policy) :
          LET c == RetentionCandidates(runs, policy, now, keep_ids) IN
          /\ OthersUnchanged(c)
          /\ policy.action = ARCHIVE => ArchiveEffect(c)
          /\ policy.action = DELETE
               => \/ DeleteEffect(c)
                  \/ c # {} /\ UNCHANGED <<runs, notification_events>>]_vars

\* A DELETE pass has removed a run that had been notified about while
\* another run and its NotificationEvents stay.
C25_CascadeReached ==
  /\ lastOp.op = "tick_retention"
  /\ lastOp.result = DELETE
  /\ \E gone \in 1..MaxRuns :
       /\ gone \notin DOMAIN runs
       /\ dispatched[<<gone, RUN_FAILED>>] = 1
       /\ \A k \in 1..Len(notification_events) :
            notification_events[k].scheduled_run_id # gone
  /\ notification_events # <<>>

\* An ARCHIVE pass has cleared the links of a run that keeps its attempt and
\* its NotificationEvents.
C25_ArchiveReached ==
  /\ lastOp.op = "tick_retention"
  /\ lastOp.result = ARCHIVE
  /\ \E id \in DOMAIN runs :
       /\ ~runs[id].has_links
       /\ Len(runs[id].attempts) = 1
       /\ \E k \in 1..Len(notification_events) :
            notification_events[k].scheduled_run_id = id

\* The fields of a ScheduledRun that _update_scheduled_run_aggregate writes.
AggregateState(run) ==
  <<run.status, run.retry_status, run.queued_at, run.started_at,
    run.finished_at, run.has_links>>

\* The attempts of run id that the step takes from a non-terminal to a
\* terminal status.
TurnedTerminal(id) ==
  {i \in 1..Len(runs[id].attempts) :
     /\ ~TerminalAttempt(runs[id].attempts[i].status)
     /\ TerminalAttempt(runs'[id].attempts[i].status)}

\* The notifications dispatched for run id so far, all triggers together.
DispatchedFor(d, id) ==
  d[<<id, RUN_STARTED>>] + d[<<id, RUN_SUCCEEDED>>]
    + d[<<id, RUN_FAILED>>] + d[<<id, RUN_CANCELLED>>]

\* C26: no step changes an Attempt whose status is SUCCEEDED, FAILED or
\* CANCELLED; a status sync recomputes the aggregate state of a run once
\* when it takes an attempt to a terminal status (the run then gets the
\* attempt's finished_at, its links and the matching status, with at most one
\* notification) and leaves the aggregate state of every other run alone.
C26_TerminalAttemptsFrozen ==
  [][\A id \in DOMAIN runs \cap DOMAIN runs' :
       /\ Len(runs'[id].attempts) >= Len(runs[id].attempts)
       /\ \A i \in 1..Len(runs[id].attempts) :
            TerminalAttempt(runs[id].attempts[i].status)
            => runs'[id].attempts[i] = runs[id].attempts[i]
       /\ tickPc = "sync"
            => IF TurnedTerminal(id) = {}
               THEN /\ AggregateState(runs'[id]) = AggregateState(runs[id])
                    /\ DispatchedFor(dispatched', id) = DispatchedFor(dispatched, id)
               ELSE \E i \in TurnedTerminal(id) :
                      /\ TurnedTerminal(id) = {i}
                      /\ i = Len(runs'[id].attempts)
                      /\ runs'[id].attempts[i].finished_at # None
                      /\ runs'[id].finished_at = runs'[id].attempts[i].finished_at
                      /\ runs'[id].has_links
                      /\ runs'[id].status =
                           (IF runs'[id].attempts[i].status = SUCCEEDED THEN SUCCESS
                            ELSE IF runs'[id].attempts[i].status = FAILED THEN FAILURE
                            ELSE RUN_CANCELLED_RESULT)
                      /\ DispatchedFor(dispatched', id)
                           <= DispatchedFor(dispatched, id) + 1]_vars

\* A run whose first attempt failed and whose links an ARCHIVE pass cleared
\* is still without links after a later status sync that found a second
\* attempt not finished.
C26_Witness ==
  \E id \in DOMAIN runs :
    /\ Len(runs[id].attempts) = 2
    /\ runs[id].attempts[1].status = FAILED
    /\ lastOp.op = "tick_sync"
    /\ ~runs[id].has_links

\* C27: a run with status FAILURE and retry_status EXHAUSTED has had exactly
\* one RUN_FAILED notification dispatched, whichever phase of the tick
\* brought it there.
C27_ExhaustedRunNotifiedOnce ==
  \A id \in DOMAIN runs :
    FailedExhausted(runs[id]) => dispatched[<<id, RUN_FAILED>>] = 1

\* What holds: no run gets more than one RUN_FAILED notification, and a
\* status sync that brings a run to FAILURE/EXHAUSTED dispatches one.
C27_SyncPathNotifiesOnce ==
  [][\A id \in DOMAIN runs \cap DOMAIN runs' :
       /\ dispatched'[<<id, RUN_FAILED>>] <= 1
       /\ (tickPc = "sync" /\ ~FailedExhausted(runs[id]) /\ FailedExhausted(runs'[id]))
            => dispatched'[<<id, RUN_FAILED>>] = dispatched[<<id, RUN_FAILED>>] + 1]_vars

\* The retry phase has marked a failed run EXHAUSTED and no RUN_FAILED
\* notification was dispatched for it.
C27_SilentExhaustion ==
  \E id \in DOMAIN runs :
    /\ FailedExhausted(runs[id])
    /\ lastOp.op = "tick_retries"
    /\ dispatched[<<id, RUN_FAILED>>] = 0

\* The runs without an Attempt whose launch is not pending: the launch was
\* refused.
RefusedRuns ==
  {id \in DOMAIN runs :
     /\ runs[id].attempts_total = 0
     /\ \A k \in 1..Len(taskq) : taskq[k] # StartTask(id)}

\* C28: a run whose first launch was refused has no Attempt, status SKIPPED
\* and retry_status NOT_APPLICABLE, and no step changes it or removes it,
\* also when launches are accepted again.
C28_RefusedRunNeverLaunched ==
  [][/\ \A id \in RefusedRuns :
          /\ runs[id].attempts = <<>>
          /\ runs[id].status = SKIPPED
          /\ runs[id].retry_status = NOT_APPLICABLE
          /\ id \in DOMAIN runs'
          /\ runs'[id] = runs[id]
     /\ (lastOp'.result = "refused" /\ lastOp'.op \in {"run_now", "start_attempt"})
          => /\ lastOp'.run \in DOMAIN runs'
             /\ runs'[lastOp'.run].attempts_total = 0
             /\ \A k \in 1..Len(taskq') : taskq'[k] # StartTask(lastOp'.run)]_vars

\* After launches are accepted again a refused run is still without an
\* Attempt while a later run of the schedule has been launched and a retry
\* phase has passed.
C28_Witness ==
  /\ settings.max_concurrent_runs = 1
  /\ lastOp.op = "tick_retries"
  /\ \E id \in RefusedRuns, later \in DOMAIN runs :
       /\ id < later
       /\ runs[id].status = SKIPPED
       /\ runs[later].attempts # <<>>

\* The _scheduler_loop tasks that have not returned.
LiveLoopTasks == {t \in DOMAIN loop_tasks : loop_tasks[t]}

\* C29: at most one scheduler loop task exists at a time, whatever calls of
\* start_scheduler and stop_scheduler were made.
C29_AtMostOneLoopTask == Cardinality(LiveLoopTasks) <= 1

\* What holds under any calls: start_scheduler changes nothing while a task
\* is registered (also while a stop waits for it) or the scheduler is
\* disabled; a loop task returns only when _running is false; a
\* start_scheduler with no task registered creates one loop and registers it.
C29_StartStopSteps ==
  [][/\ (lastOp'.op = "start_scheduler"
          /\ (_scheduler_task # None \/ ~settings.scheduler_enabled))
          => UNCHANGED <<_running, _scheduler_task, loop_tasks, stop_waiting>>
     /\ (lastOp'.op = "start_scheduler" /\ _scheduler_task = None
          /\ settings.scheduler_enabled)
          => /\ _running'
             /\ _scheduler_task' = Len(loop_tasks') /\ Len(loop_tasks') = Len(loop_tasks) + 1
             /\ loop_tasks'[_scheduler_task']
     /\ \A t \in LiveLoopTasks : ~loop_tasks'[t] => ~_running
     /\ ~settings.scheduler_enabled => loop_tasks' = <<>>]_vars

\* A stop_scheduler has returned and a later start_scheduler has started a
\* second loop, the only one alive.
C29_RestartReached ==
  /\ Len(loop_tasks) = 2
  /\ LiveLoopTasks = {2}
  /\ _scheduler_task = 2
  /\ stop_waiting = <<>>
  /\ lastOp.op = "tick_due"

\* Two loops are alive, the first of them unregistered.
C29_TwoLoops ==
  /\ Cardinality(LiveLoopTasks) = 2
  /\ _running

\* The CRON runs of the schedule; run ids are given in creation order.
CronRuns == {id \in DOMAIN runs : runs[id].triggering_event = CRON}

\* C30: of two CRON runs of the schedule the one created later has the later
\* scheduled_at, whatever ticks, pauses, resumes and cron or timezone updates
\* came between them.
C30_ScheduledAtIncreasing ==
  \A a \in CronRuns, b \in CronRuns :
    a < b => runs[a].scheduled_at < runs[b].scheduled_at

\* A tick has created the second CRON run in a slot of the schedule as it is
\* now, while the first run's scheduled_at is no slot of it: the cron
\* expression or the timezone was updated between the two.
C30_Witness ==
  /\ CronRuns = {1, 2}
  /\ lastOp.op = "tick_due"
  /\ lastOp.created = 1
  /\ schedule.cron_expression >= 1
  /\ schedule.timezone # None
  /\ IsSlot(schedule, runs[2].scheduled_at)
  /\ ~IsSlot(schedule, runs[1].scheduled_at)

====
